---- MODULE Spec2Model ----
(***************************************************************************)
(* Fraud-alert triage: the circuit breaker, the resilient tool wrapper     *)
(* (BaseTool) and the orchestrator with its SSE stream route.              *)
(*                                                                         *)
(* Time is a discrete clock `now` in milliseconds.  Every await of the     *)
(* code is a pending completion with a wake-up time; the pending           *)
(* completion with the smallest wake-up time fires next and sets the clock *)
(* to it (a single-threaded event loop).                                   *)
(*                                                                         *)
(* Three specifications share the definitions:                             *)
(*   SpecCB    callers of CircuitBreaker.execute(toolName, fn)             *)
(*   SpecTool  callers of BaseTool.execute(context)                        *)
(*   Spec      triage runs of Orchestrator.executeTriage behind the        *)
(*             GET /:runId/stream route                                    *)
(***************************************************************************)
EXTENDS Integers, Sequences, FiniteSets, TLC

VARIABLES
    now,        \* Date.now()
    states,     \* CircuitBreaker.states: tool name -> CircuitBreakerState
    call,       \* per caller: the pending CircuitBreaker/BaseTool call
    obs,        \* history of the calls (counters the claims speak about)
    run,        \* per triage run: the locals of executeTriage
    triageRun,  \* persisted triage_run rows, by run
    agentTrace, \* persisted agent_trace rows, by run
    stream,     \* events written to the SSE response, by run
    redis,      \* the shared store: rate_limit key -> bucket with its expiry
    req,        \* per request slot: the checkLimit call in flight
    log,        \* per client: the checkLimit calls that ended, in order
    db,         \* the database of the action routes: card, cases, alert
    act         \* per request slot: the action handler in flight

rlvars == <<redis, req, log>>
actvars == <<db, act>>
vars == <<now, states, call, obs, run, triageRun, agentTrace, stream, redis, req, log,
          db, act>>

(***************************************************************************)
(* Program constants                                                       *)
(***************************************************************************)
failureThreshold == 3
openDuration == 30000
timeout == 1000
maxRetries == 2
retryDelays == <<150, 400>>
flowBudget == 5000
defaultPlan == <<"dataAccess", "riskSignals", "kbLookup", "decide", "proposeAction">>

\* Orchestrator.tools: step name -> the tool's constructor name, which is
\* the name BaseTool.execute hands to the circuit breaker.
tools ==
    [s \in {"dataAccess", "insights", "riskSignals", "kbLookup", "compliance",
            "redactor", "summarizer", "decide", "proposeAction"} |->
        CASE s = "dataAccess" -> "DataAccessAgent"
          [] s = "insights" -> "InsightsAgent"
          [] s = "riskSignals" -> "FraudAgent"
          [] s = "kbLookup" -> "KnowledgeBaseAgent"
          [] s = "compliance" -> "ComplianceAgent"
          [] s = "redactor" -> "RedactorAgent"
          [] s = "summarizer" -> "SummarizerAgent"
          [] s = "decide" -> "DecisionTool"
          [] s = "proposeAction" -> "ProposeActionTool"]

(***************************************************************************)
(* Bounds of the model                                                     *)
(***************************************************************************)
Procs == {1, 2}             \* concurrent callers sharing the breaker
CbTools == {"FraudAgent"}   \* tool names the direct callers use
MaxCbCalls == 6             \* CircuitBreaker.execute calls in SpecCB
ToolProcs == {1}            \* the direct caller of BaseTool.execute
MaxToolCalls == 5           \* BaseTool.execute calls in SpecTool
MaxWaits == 4               \* waits of the direct caller in SpecTool
GridMs == 5000              \* the grid of instants a direct caller calls at
MaxPasses == 3              \* idle waits between calls
RunDurations == {50}        \* how long a run that settles in time takes
JitterSet == {0, 49}        \* samples of Math.random() * 50
FnDurations == {100}        \* how long a supplied function runs
\* An idle wait either stops 1 ms short of a cooldown or completes it.
PassSet == {1, openDuration - 1}
Runs == {1}                 \* triage runs
MaxTraceFaults == 1         \* rejected agentTrace.create calls per run
DbDurations == {5}          \* how long a database call takes
\* The breaker a triage run finds: fresh, or FraudAgent's circuit just opened.
BreakerSamples ==
    {<<>>,
     [t \in {"FraudAgent"} |->
         [failures |-> failureThreshold, lastFailureTime |-> 0, isOpen |-> TRUE]]}
\* The orchestrator's plan: the default plan, or a plan with a step no tool
\* is registered for (the null branch of the tool lookup).
Plans == {defaultPlan, <<"riskSignals", "notifyCustomer", "proposeAction">>}
\* How many events a client has received when it closes the connection.
DisconnectPoints == {1, 4}
\* The data behind an alert: the customer's transaction statistics, the
\* customer's prior chargebacks, the knowledge-base documents found.
AlertData ==
    {<<[velocityScore |-> 0, deviceChange |-> FALSE, mccRarityPct |-> 100], 0, <<>>>>,
     <<[velocityScore |-> 6, deviceChange |-> TRUE, mccRarityPct |-> 100], 0,
       <<[title |-> "Dispute Policy"]>>>>,
     <<[velocityScore |-> 0, deviceChange |-> FALSE, mccRarityPct |-> 100], 1,
       <<[title |-> "Dispute Policy"]>>>>}


(***************************************************************************)
(* CircuitBreaker                                                          *)
(***************************************************************************)
InitialState == [failures |-> 0, lastFailureTime |-> 0, isOpen |-> FALSE]

\* getState: the map with the name's state created when absent.
getState(m, toolName) ==
    IF toolName \in DOMAIN m THEN m ELSE m @@ (toolName :> InitialState)

\* Mutant: a success clears the failure count but leaves the circuit open.
onSuccess_keepsOpen(m, toolName) ==
    LET m1 == getState(m, toolName)
    IN [m1 EXCEPT ![toolName].failures = 0]

\* Mutant: a success closes the circuit but keeps the failure count.
onSuccess_keepsCount(m, toolName) ==
    LET m1 == getState(m, toolName)
    IN [m1 EXCEPT ![toolName].isOpen = FALSE]

onSuccess(m, toolName) ==
    LET m1 == getState(m, toolName)
    IN [m1 EXCEPT ![toolName].failures = 0, ![toolName].isOpen = FALSE]

\* Mutant: the circuit opens one failure late (> for >=).
onFailure_lateOpen(m, toolName, t) ==
    LET m1 == getState(m, toolName)
        f == m1[toolName].failures + 1
    IN [m1 EXCEPT ![toolName].failures = f,
                  ![toolName].lastFailureTime = t,
                  ![toolName].isOpen = IF f > failureThreshold THEN TRUE ELSE @]

onFailure(m, toolName, t) ==
    LET m1 == getState(m, toolName)
        f == m1[toolName].failures + 1
    IN [m1 EXCEPT ![toolName].failures = f,
                  ![toolName].lastFailureTime = t,
                  ![toolName].isOpen = IF f >= failureThreshold THEN TRUE ELSE @]

\* Mutant: the cooldown reset closes the circuit but keeps the failure count.
resetCircuit_keepsCount(m, toolName) ==
    [getState(m, toolName) EXCEPT ![toolName].isOpen = FALSE]

resetCircuit(m, toolName) ==
    [getState(m, toolName) EXCEPT ![toolName] = InitialState]

\* The head of CircuitBreaker.execute, up to the call of fn: whether the
\* call is rejected with the circuit-open error, and the map it leaves.
\* Mutant: the cooldown test inverted (the circuit rejects after the
\* cooldown, not within it).
cbRejects_inverted(m, toolName, t) ==
    LET s == getState(m, toolName)[toolName]
    IN s.isOpen /\ t - s.lastFailureTime > openDuration

cbRejects(m, toolName, t) ==
    LET s == getState(m, toolName)[toolName]
    IN s.isOpen /\ t - s.lastFailureTime < openDuration

\* Mutant: the circuit is never reset after the cooldown.
cbEnter_noReset(m, toolName, t) == getState(m, toolName)

cbEnter(m, toolName, t) ==
    LET m1 == getState(m, toolName)
    IN IF m1[toolName].isOpen /\ ~cbRejects(m, toolName, t)
       THEN resetCircuit(m1, toolName)
       ELSE m1

(***************************************************************************)
(* Pending completions and the clock                                       *)
(***************************************************************************)
IdleCall == [pc |-> "idle", last |-> "none"]
IdleRun == [pc |-> "idle"]

Wakes ==
    {call[p].wake : p \in {q \in DOMAIN call : call[q].pc # "idle"}}
    \cup {run[r].wake : r \in {q \in DOMAIN run : run[q].pc \notin {"idle", "closed"}}}

\* A pending completion fires when no other is due earlier.
Due(w) == \A x \in Wakes : w <= x

ZeroObs ==
    [begun |-> [t \in CbTools |-> 0],      \* execute calls begun
     fnCalls |-> [t \in CbTools |-> 0],    \* invocations of fn / of run
     rejected |-> [t \in CbTools |-> 0],   \* calls rejected by an open circuit
     succeeded |-> [t \in CbTools |-> 0],  \* calls whose fn resolved
     failed |-> [t \in CbTools |-> 0],     \* calls whose fn rejected
     consec |-> [t \in CbTools |-> 0],     \* failed calls since the last success
     resets |-> [t \in CbTools |-> 0],     \* cooldown resets
     runCalls |-> [t \in CbTools |-> 0],   \* invocations of the tool's run: the first
                                           \* with the call, the retries at its return
     sinceReset |-> [t \in CbTools |-> 0], \* calls completed since the last reset
     passes |-> 0]

(***************************************************************************)
(* SpecCB: direct callers of CircuitBreaker.execute                        *)
(***************************************************************************)
InitCB ==
    /\ now = 0
    /\ states = <<>>
    /\ call = [p \in Procs |-> IdleCall]
    /\ obs = ZeroObs
    /\ run = <<>>
    /\ triageRun = <<>>
    /\ agentTrace = <<>>
    /\ stream = <<>>
    /\ redis = <<>>
    /\ req = <<>>
    /\ log = <<>>
    /\ db = <<>>
    /\ act = <<>>

\* execute(toolName, fn) up to its first await: the circuit check, the
\* cooldown reset, and the call of fn, whose outcome the environment picks.
CbCall(p, toolName, out, d) ==
    /\ call[p].pc = "idle"
    /\ obs.begun[toolName] < MaxCbCalls
    /\ IF cbRejects(states, toolName, now)
       THEN /\ states' = getState(states, toolName)
            /\ call' = [call EXCEPT ![p] = [pc |-> "idle", last |-> "open", tool |-> toolName]]
            /\ obs' = [obs EXCEPT !.begun[toolName] = @ + 1,
                                  !.rejected[toolName] = @ + 1]
       ELSE /\ states' = cbEnter(states, toolName, now)
            /\ call' = [call EXCEPT ![p] =
                          [pc |-> "fn", tool |-> toolName, out |-> out, wake |-> now + d]]
            /\ obs' = [obs EXCEPT
                          !.begun[toolName] = @ + 1,
                          !.fnCalls[toolName] = @ + 1,
                          !.resets[toolName] =
                              IF getState(states, toolName)[toolName].isOpen THEN @ + 1 ELSE @,
                          !.sinceReset[toolName] =
                              IF getState(states, toolName)[toolName].isOpen THEN 0 ELSE @]
    /\ UNCHANGED <<now, run, triageRun, agentTrace, stream>>
    /\ UNCHANGED rlvars
    /\ UNCHANGED actvars

\* fn settles: onSuccess and return, or onFailure and rethrow.
CbReturn(p) ==
    /\ call[p].pc = "fn"
    /\ Due(call[p].wake)
    /\ now' = call[p].wake
    /\ LET t == call[p].tool IN
       IF call[p].out = "ok"
       THEN /\ states' = onSuccess(states, t)
            /\ call' = [call EXCEPT ![p] = [pc |-> "idle", last |-> "ok", tool |-> t]]
            /\ obs' = [obs EXCEPT !.succeeded[t] = @ + 1, !.consec[t] = 0,
                                  !.sinceReset[t] = @ + 1]
       ELSE /\ states' = onFailure(states, t, now')
            /\ call' = [call EXCEPT ![p] = [pc |-> "idle", last |-> "fail", tool |-> t]]
            /\ obs' = [obs EXCEPT !.failed[t] = @ + 1, !.consec[t] = @ + 1,
                                  !.sinceReset[t] = @ + 1]
    /\ UNCHANGED <<run, triageRun, agentTrace, stream>>
    /\ UNCHANGED rlvars
    /\ UNCHANGED actvars

\* isOpen(toolName): what the method returns on the map m.
isOpen(m, toolName) == getState(m, toolName)[toolName].isOpen

\* A caller asks isOpen(toolName): getState creates the name's state when
\* it is absent; no call begins and nothing else changes.
CbIsOpen(toolName) ==
    /\ states' = getState(states, toolName)
    /\ UNCHANGED <<now, call, obs, run, triageRun, agentTrace, stream>>
    /\ UNCHANGED rlvars
    /\ UNCHANGED actvars

\* Time passes with no call beginning or returning.
Pass(d) ==
    /\ obs.passes < MaxPasses
    /\ Due(now + d)
    /\ now' = now + d
    /\ obs' = [obs EXCEPT !.passes = @ + 1]
    /\ UNCHANGED <<states, call, run, triageRun, agentTrace, stream>>
    /\ UNCHANGED rlvars
    /\ UNCHANGED actvars

NextCB ==
    \/ \E p \in Procs, t \in CbTools, out \in {"ok", "fail"}, d \in FnDurations :
          CbCall(p, t, out, d)
    \/ \E p \in Procs : CbReturn(p)
    \/ \E t \in CbTools : CbIsOpen(t)
    \/ \E d \in PassSet : Pass(d)

SpecCB == InitCB /\ [][NextCB]_vars

(***************************************************************************)
(* BaseTool                                                                *)
(***************************************************************************)
Undefined == [undefined |-> TRUE]
Msg(s) == [message |-> s]
TimeoutError == [kind |-> "Error", message |-> Msg("Tool timeout exceeded")]
\* The TypeError raised by the read of error.message when the caught value
\* is null or undefined; its text names the value.
NullReadError(thrown) ==
    [kind |-> "Error",
     message |-> Msg(IF thrown.kind = "null"
                     THEN "Cannot read properties of null (reading 'message')"
                     ELSE "Cannot read properties of undefined (reading 'message')")]
CircuitOpenError(toolName) ==
    [kind |-> "Error", message |-> [message |-> "Circuit breaker open for", tool |-> toolName]]

\* What one invocation of run(context) can do: resolve, reject with an Error
\* (of any message, that of the breaker's own Error included), reject with
\* a value that has no message property (a string, a number), reject with
\* null, reject with undefined, or not settle within the timeout.
RunOutcomes ==
    [kind : {"ok"}, ms : RunDurations]
    \cup [kind : {"throw"}, ms : RunDurations,
          thrown : {[kind |-> "Error", message |-> Msg("boom")],
                    [kind |-> "value"], [kind |-> "null"], [kind |-> "undefined"]}
                   \cup {CircuitOpenError(t) : t \in CbTools}]
    \cup [kind : {"hang"}]

\* error.message
messageOf(thrown) ==
    IF thrown.kind = "Error" THEN thrown.message ELSE Undefined

\* executeWithTimeout: the race of run against the timer.  The attempt's
\* settlement: after how long, and resolved or rejected with what.
executeWithTimeout(o) ==
    CASE o.kind = "ok" -> [ms |-> o.ms, ok |-> TRUE]
      [] o.kind = "throw" -> [ms |-> o.ms, ok |-> FALSE, thrown |-> o.thrown]
      [] o.kind = "hang" -> [ms |-> timeout, ok |-> FALSE, thrown |-> TimeoutError]

\* executeWithRetry from attempt `attempt` on, begun `t` ms into the call;
\* outs[k] is what the k-th invocation of run does, jits[k] the jitter of
\* the k-th delay.  The result: settled ok with data or rejected with
\* thrown, after elapsed ms, with the start and end of every attempt and
\* the attempts whose run had not settled when the timer won the race
\* (Promise.race leaves the loser as it is).
RECURSIVE retryLoop(_, _, _, _, _, _, _)
retryLoop(attempt, outs, jits, data, t, starts, ends) ==
    LET a == executeWithTimeout(outs[attempt + 1])
        tEnd == t + a.ms
        s1 == Append(starts, t)
        e1 == Append(ends, tEnd)
        unsettled == {k \in 1..(attempt + 1) : outs[k].kind = "hang"}
    IN IF a.ok
       THEN [ok |-> TRUE, data |-> data, elapsed |-> tEnd, starts |-> s1, ends |-> e1,
             unsettled |-> unsettled]
       ELSE IF a.thrown.kind \in {"null", "undefined"}
       THEN \* the catch block's own error.message throws and leaves the loop
            [ok |-> FALSE, thrown |-> NullReadError(a.thrown), elapsed |-> tEnd,
             starts |-> s1, ends |-> e1, unsettled |-> unsettled]
       ELSE IF attempt < maxRetries
       THEN retryLoop(attempt + 1, outs, jits, data,
                      tEnd + retryDelays[attempt + 1] + jits[attempt + 1], s1, e1)
       ELSE [ok |-> FALSE, thrown |-> a.thrown, elapsed |-> tEnd,
             starts |-> s1, ends |-> e1, unsettled |-> unsettled]

executeWithRetry(outs, jits, data) == retryLoop(0, outs, jits, data, 0, <<>>, <<>>)

\* The ToolResult BaseTool.execute resolves to.
okResult(data, duration) ==
    [ok |-> TRUE, data |-> data, error |-> Undefined, duration |-> duration]
failResult(thrown, duration) ==
    [ok |-> FALSE, data |-> Undefined, error |-> messageOf(thrown), duration |-> duration]
toolResult(r, duration) ==
    IF r.ok THEN okResult(r.data, duration) ELSE failResult(r.thrown, duration)

(***************************************************************************)
(* SpecTool: a direct caller of BaseTool.execute                           *)
(***************************************************************************)
SomeData == [payload |-> "data"]

\* A caller begins its calls on a grid of instants, or at the two instants
\* around the end of the tool's cooldown.
CallInstant(toolName) ==
    \/ now % GridMs = 0
    \/ /\ toolName \in DOMAIN states
       /\ states[toolName].isOpen
       /\ now - states[toolName].lastFailureTime \in {openDuration - 1, openDuration}

\* What the successive invocations of run do in one call of execute: every
\* sequence the retry loop can consume (it stops at the first attempt that
\* resolves or throws null or undefined, and after maxRetries + 1 attempts).
Retryable(o) ==
    o.kind = "hang" \/ (o.kind = "throw" /\ o.thrown.kind \notin {"null", "undefined"})
ThrowsOpenMessage(o) ==
    o.kind = "throw" /\ o.thrown \in {CircuitOpenError(t) : t \in CbTools}
RunScripts ==
    {s \in UNION {[1..n -> RunOutcomes] : n \in 1..(maxRetries + 1)} :
        /\ \A k \in 1..(Len(s) - 1) : Retryable(s[k])
        /\ Len(s) <= maxRetries => ~Retryable(s[Len(s)])
        \* a tool that throws the breaker's message does so at every attempt
        /\ (\E k \in DOMAIN s : ThrowsOpenMessage(s[k])) => \A k \in DOMAIN s : s[k] = s[1]}
Jitters(s) == [1..(Len(s) - 1) -> JitterSet]

\* What the tool of a plan step whose run awaits the database does in a
\* triage run: it resolves at the first attempt, or every invocation of run
\* throws the same Error or hangs, and the two delays draw the same jitter.
StepScripts ==
    {s \in RunScripts :
        \A k \in 1..Len(s) :
            s[k] = s[1] /\ (s[k].kind = "throw" => s[k].thrown = [kind |-> "Error", message |-> Msg("boom")])}
StepJitters(s) == {j \in Jitters(s) : \A k \in DOMAIN j : j[k] = j[1]}

\* execute(context) up to its first await: the circuit check and, unless
\* the circuit rejects the call, the retry loop the environment's choices
\* (outs, jits) determine.
ToolCall(p, toolName, outs, jits) ==
    /\ call[p].pc = "idle"
    /\ CallInstant(toolName)
    /\ obs.begun[toolName] < MaxToolCalls
    /\ IF cbRejects(states, toolName, now)
       THEN /\ states' = getState(states, toolName)
            /\ call' = [call EXCEPT ![p] =
                          [pc |-> "idle", tool |-> toolName, last |-> "open",
                           result |-> failResult(CircuitOpenError(toolName), 0)]]
            /\ obs' = [obs EXCEPT !.begun[toolName] = @ + 1,
                                  !.rejected[toolName] = @ + 1]
       ELSE /\ states' = cbEnter(states, toolName, now)
            /\ call' = [call EXCEPT ![p] =
                          LET r == executeWithRetry(outs, jits, SomeData) IN
                          [pc |-> "exec", tool |-> toolName, pend |-> r,
                           wake |-> now + r.elapsed]]
            /\ obs' = [obs EXCEPT
                          !.begun[toolName] = @ + 1,
                          !.fnCalls[toolName] = @ + 1,
                          !.runCalls[toolName] = @ + 1,
                          !.resets[toolName] =
                              IF getState(states, toolName)[toolName].isOpen THEN @ + 1 ELSE @,
                          !.sinceReset[toolName] =
                              IF getState(states, toolName)[toolName].isOpen THEN 0 ELSE @]
    /\ UNCHANGED <<now, run, triageRun, agentTrace, stream>>
    /\ UNCHANGED rlvars
    /\ UNCHANGED actvars

\* Mutant: the breaker counts every failed attempt of the retry loop.
RECURSIVE onFailureTimes(_, _, _, _)
onFailureTimes(m, toolName, t, n) ==
    IF n = 0 THEN m ELSE onFailureTimes(onFailure(m, toolName, t), toolName, t, n - 1)

ToolReturn_perAttempt(p) ==
    /\ call[p].pc = "exec"
    /\ Due(call[p].wake)
    /\ now' = call[p].wake
    /\ LET t == call[p].tool
           r == call[p].pend
       IN /\ states' = IF r.ok
                       THEN onFailureTimes(states, t, now', Len(r.starts) - 1)
                       ELSE onFailureTimes(states, t, now', Len(r.starts))
          /\ call' = [call EXCEPT ![p] =
                        [pc |-> "idle", tool |-> t, last |-> IF r.ok THEN "ok" ELSE "fail",
                         result |-> toolResult(r, r.elapsed), done |-> r]]
          /\ obs' = [obs EXCEPT
                        !.succeeded[t] = IF r.ok THEN @ + 1 ELSE @,
                        !.failed[t] = IF r.ok THEN @ ELSE @ + 1,
                        !.consec[t] = IF r.ok THEN 0 ELSE @ + 1,
                        !.sinceReset[t] = @ + 1,
                        !.runCalls[t] = @ + Len(r.starts) - 1]
    /\ UNCHANGED <<run, triageRun, agentTrace, stream>>
    /\ UNCHANGED rlvars
    /\ UNCHANGED actvars

\* The retry loop settles: the breaker's onSuccess or onFailure, then the
\* ToolResult.
ToolReturn(p) ==
    /\ call[p].pc = "exec"
    /\ Due(call[p].wake)
    /\ now' = call[p].wake
    /\ LET t == call[p].tool
           r == call[p].pend
       IN /\ states' = IF r.ok THEN onSuccess(states, t) ELSE onFailure(states, t, now')
          /\ call' = [call EXCEPT ![p] =
                        [pc |-> "idle", tool |-> t, last |-> IF r.ok THEN "ok" ELSE "fail",
                         result |-> toolResult(r, r.elapsed), done |-> r]]
          /\ obs' = [obs EXCEPT
                        !.succeeded[t] = IF r.ok THEN @ + 1 ELSE @,
                        !.failed[t] = IF r.ok THEN @ ELSE @ + 1,
                        !.consec[t] = IF r.ok THEN 0 ELSE @ + 1,
                        !.sinceReset[t] = @ + 1,
                        !.runCalls[t] = @ + Len(r.starts) - 1]
    /\ UNCHANGED <<run, triageRun, agentTrace, stream>>
    /\ UNCHANGED rlvars
    /\ UNCHANGED actvars

\* The caller waits for its next instant: the next grid instant, or an
\* instant around the end of an open circuit's cooldown.
WaitTargets ==
    {(now \div GridMs + 1) * GridMs}
    \cup UNION {{states[t].lastFailureTime + openDuration - 1,
                 states[t].lastFailureTime + openDuration} :
                t \in {u \in DOMAIN states : states[u].isOpen}}

WaitUntil(T) ==
    /\ T > now
    /\ \A p \in ToolProcs : call[p].pc = "idle"
    /\ obs.passes < MaxWaits
    /\ now' = T
    /\ call' = [p \in ToolProcs |-> IdleCall]
    /\ obs' = [obs EXCEPT !.passes = @ + 1]
    /\ UNCHANGED <<states, run, triageRun, agentTrace, stream>>
    /\ UNCHANGED rlvars
    /\ UNCHANGED actvars

InitTool ==
    /\ now = 0
    /\ states = <<>>
    /\ call = [p \in ToolProcs |-> IdleCall]
    /\ obs = ZeroObs
    /\ run = <<>>
    /\ triageRun = <<>>
    /\ agentTrace = <<>>
    /\ stream = <<>>
    /\ redis = <<>>
    /\ req = <<>>
    /\ log = <<>>
    /\ db = <<>>
    /\ act = <<>>

NextTool ==
    \/ \E p \in ToolProcs, t \in CbTools, outs \in RunScripts :
          \E jits \in Jitters(outs) : ToolCall(p, t, outs, jits)
    \/ \E p \in ToolProcs : ToolReturn(p)
    \/ \E T \in WaitTargets : WaitUntil(T)

SpecTool == InitTool /\ [][NextTool]_vars

(***************************************************************************)
(* The agents of the default plan (their run methods)                      *)
(***************************************************************************)
Null == [null |-> TRUE]
Reason(s) == [text |-> s]
AppendIf(s, c, e) == IF c THEN Append(s, e) ELSE s

\* context.transactions as the three statistics FraudAgent reads off the
\* list: calculateVelocityScore, detectDeviceChange, calculateMccRarity (in
\* percent).  NoTransactions is the empty list the context starts with.
NoTransactions == [velocityScore |-> 0, deviceChange |-> FALSE, mccRarityPct |-> 100]

\* DataAccessAgent.run
DataAccessAgentRun(alert) == [customer |-> alert.customer, transactions |-> alert.transactions]

\* FraudAgent.run (the score, a function of the signals, is left out)
FraudAgentRun(transactions, priorChargebacks) ==
    LET signals == [velocityScore |-> transactions.velocityScore,
                    deviceChange |-> transactions.deviceChange,
                    mccRarityPct |-> transactions.mccRarityPct,
                    priorChargebacks |-> priorChargebacks]
    IN IF signals.velocityScore > 10 \/ signals.priorChargebacks > 0
       THEN [signals |-> signals, risk |-> "high",
             reasons |-> AppendIf(AppendIf(<<>>, signals.velocityScore > 10,
                                           Reason("High velocity")),
                                  signals.priorChargebacks > 0, Reason("Prior chargebacks")),
             action |-> "freeze_card"]
       ELSE IF signals.velocityScore > 5 \/ signals.deviceChange \/ signals.mccRarityPct < 10
       THEN [signals |-> signals, risk |-> "medium",
             reasons |-> AppendIf(AppendIf(AppendIf(<<>>, signals.velocityScore > 5,
                                                    Reason("Elevated velocity")),
                                           signals.deviceChange,
                                           Reason("Multiple devices detected")),
                                  signals.mccRarityPct < 10,
                                  Reason("Unusual merchant category")),
             action |-> "freeze_card"]
       ELSE [signals |-> signals, risk |-> "low",
             reasons |-> <<Reason("No significant fraud signals detected")>>,
             action |-> "mark_false_positive"]

\* KnowledgeBaseAgent.run: the top three documents found
KnowledgeBaseAgentRun(docs) ==
    SubSeq(docs, 1, IF Len(docs) < 3 THEN Len(docs) ELSE 3)

\* DecisionTool.run: the context has no action property
DecisionToolRun == [recommendedAction |-> "mark_false_positive", confidencePct |-> 85]

\* ProposeActionTool.run; riskResult is context.riskResult, complianceResult
\* is never set by the default plan.
actionSchema == {"freeze_card", "open_dispute", "contact_customer", "mark_false_positive"}
ProposeActionToolRun(riskResult) ==
    LET action == IF riskResult # Undefined THEN riskResult.action ELSE "mark_false_positive"
        confidencePct ==
            IF riskResult # Undefined /\ riskResult.risk = "high" /\ Len(riskResult.reasons) > 2
            THEN 92
            ELSE IF riskResult # Undefined /\ riskResult.risk = "low" THEN 85 ELSE 75
    IN IF action \in actionSchema
       THEN [action |-> action, confidencePct |-> confidencePct,
             requiresApproval |-> FALSE, blockedByPolicy |-> FALSE]
       ELSE [action |-> "contact_customer", confidencePct |-> 50,
             requiresApproval |-> TRUE, blockedByPolicy |-> FALSE]

\* Mutant: the fallback assessment is high risk.
getFallbackRisk_high ==
    [risk |-> "high",
     reasons |-> <<Reason("Risk assessment unavailable (fallback)")>>,
     action |-> "freeze_card"]

\* Orchestrator.getFallbackRisk
getFallbackRisk ==
    [risk |-> "medium",
     reasons |-> <<Reason("Risk assessment unavailable (fallback)")>>,
     action |-> "freeze_card"]

(***************************************************************************)
(* Orchestrator.executeTriage behind the two triage routes                 *)
(***************************************************************************)
RunId(r) == [nanoid |-> r]          \* executeTriage: runId = nanoid()
\* An id a client puts in the stream's URL without having been handed it
ParamRunId(r) == [param |-> r]
AlertId == "alert_1"                \* the alertId of the requests
\* POST /: runId = `run_${Date.now()}_${alertId}`, returned to the client
PostRunId(t, alertId) == [run |-> t, alertId |-> alertId]

\* What the database returns for the alert of a run: no alert, or the alert
\* with the data the agents read.
AlertSamples ==
    {[exists |-> FALSE]}
    \cup {[exists |-> TRUE, customer |-> "cust_1", transactions |-> a[1],
           chargebacks |-> a[2], kbDocs |-> a[3]] : a \in AlertData}

\* The events written to the stream
EvConnected(runId) == [type |-> "connected", runId |-> runId]
EvError(m) == [type |-> "error", message |-> m]
EvStreamCompleted == [type |-> "completed"]
EvPlanBuilt(r, plan) == [type |-> "plan_built", plan |-> plan, runId |-> RunId(r)]
EvToolUpdate(r, step, status) ==
    [type |-> "tool_update", step |-> step, status |-> status, runId |-> RunId(r)]
EvFallback(r, step, reason) ==
    [type |-> "fallback_triggered", step |-> step, reason |-> reason, runId |-> RunId(r)]
EvDecision(r, d) ==
    [type |-> "decision_finalized", risk |-> d.risk, reasons |-> d.reasons,
     recommendedAction |-> d.recommendedAction, latencyMs |-> d.latencyMs,
     runId |-> RunId(r)]

\* res.write of the stream route: the event reaches the client while the
\* connection stands; written to a closed connection it is dropped, and the
\* write does not throw.
resWrite(evs, connected, e) == IF connected THEN Append(evs, e) ELSE evs

\* The streamCallback of a run: none (POST /), or the stream route's
\* (event) => res.write(...) on a connection that stands or not.
NoCallback == [given |-> FALSE]
Callback(L) ==
    IF L.callback THEN [given |-> TRUE, connected |-> L.connected] ELSE NoCallback

\* streamEvent: the callback is called when one was given
streamEvent(evs, callback, e) ==
    IF callback.given THEN resWrite(evs, callback.connected, e) ELSE evs

\* The steps whose tool's run has no await (DecisionTool, ProposeActionTool):
\* run computes its value from the context and returns, so tool.execute
\* resolves in the turn it was called in, with ok = true, and never waits
\* for a timer.
RunsWithoutAwait == {"decide", "proposeAction"}

\* tool.run(context) of the step's tool, as the context stands
toolRun(step, L) ==
    CASE step = "dataAccess" -> DataAccessAgentRun(L.alert)
      [] step = "riskSignals" -> FraudAgentRun(L.context.transactions, L.alert.chargebacks)
      [] step = "kbLookup" -> KnowledgeBaseAgentRun(L.alert.kbDocs)
      [] step = "decide" -> DecisionToolRun
      [] step = "proposeAction" -> ProposeActionToolRun(L.context.riskResult)

\* The locals of executeTriage at its first await (prisma.alert.findUnique)
NewRun(alert, callback, plan, t, d) ==
    [pc |-> "findAlert", outcome |-> "pending", cause |-> "none", wake |-> t + d,
     callback |-> callback, connected |-> callback, alert |-> alert,
     plan |-> plan,
     startTime |-> t, i |-> 1, stepStartTime |-> t,
     context |-> [transactions |-> NoTransactions, riskResult |-> Undefined],
     steps |-> <<>>, fallbackUsed |-> FALSE,
     riskResult |-> Null, kbResults |-> Null, proposalResult |-> Null,
     pend |-> Null, result |-> Null, attempted |-> 0, traceFaults |-> 0]

\* Mutant: a step with no tool ends the loop (break for continue).
NextRegistered_stops(plan, i) ==
    IF i > Len(plan) \/ plan[i] \in DOMAIN tools THEN i ELSE Len(plan) + 1

\* for (const step of plan): the next step of the plan that has a tool
RECURSIVE NextRegistered(_, _)
NextRegistered(plan, i) ==
    IF i > Len(plan) \/ plan[i] \in DOMAIN tools
    THEN i
    ELSE NextRegistered(plan, i + 1)

\* Mutant: the risk result's action is preferred to the proposal's.
finalAction_riskFirst(proposalResult, riskResult) ==
    IF riskResult # Null THEN riskResult.action
    ELSE IF proposalResult # Null THEN proposalResult.action
    ELSE "contact_customer"

\* proposalResult?.action || riskResult?.action || 'contact_customer'
finalAction(proposalResult, riskResult) ==
    IF proposalResult # Null THEN proposalResult.action
    ELSE IF riskResult # Null THEN riskResult.action
    ELSE "contact_customer"

\* The final decision (lines 258-283) and the await of triageRun.update.
\* reasons is riskResult.reasons itself when there is a riskResult, so the
\* pushes also show in riskResult and in the riskSignals step whose detail
\* is that object.
Finalize(r, L, evs, d) ==
    LET rr == L.riskResult
        risk == IF rr # Null THEN rr.risk ELSE "medium"
        reasons0 == IF rr # Null
                    THEN rr.reasons
                    ELSE <<Reason("Risk assessment unavailable (fallback)")>>
        recommendedAction == finalAction(L.proposalResult, rr)
        reasons == IF L.kbResults # Null /\ Len(L.kbResults.docs) > 0
                   THEN Append(reasons0,
                               [text |-> "KB refs",
                                titles |-> [k \in DOMAIN L.kbResults.docs |->
                                               L.kbResults.docs[k].title]])
                   ELSE reasons0
        aliased(s) == s.step = "riskSignals" /\ s.ok /\ rr # Null /\ s.detail = rr
    IN /\ run' = [run EXCEPT ![r] =
                    [L EXCEPT !.pc = "updateRun", !.wake = now' + d,
                              !.riskResult = IF rr # Null THEN [rr EXCEPT !.reasons = reasons]
                                             ELSE rr,
                              !.steps = [k \in DOMAIN L.steps |->
                                            IF aliased(L.steps[k])
                                            THEN [L.steps[k] EXCEPT !.detail.reasons = reasons]
                                            ELSE L.steps[k]]]
                    @@ [risk |-> risk, reasons |-> reasons,
                        recommendedAction |-> recommendedAction,
                        latencyMs |-> now' - L.startTime]]
       /\ stream' = [stream EXCEPT ![r] = evs]
       /\ states' = states

\* After tool.execute resolved (lines 158-194): the result is stored, the
\* step recorded, and the trace row's creation awaited.
AfterExecute(r, L, evs, result, d) ==
    LET step == L.plan[L.i]
        L1 == CASE step = "dataAccess" /\ result.ok ->
                     [L EXCEPT !.context.transactions = result.data.transactions]
                [] step = "riskSignals" /\ result.ok ->
                     [L EXCEPT !.riskResult = result.data,
                               !.context.riskResult = result.data]
                [] step = "kbLookup" /\ result.ok ->
                     [L EXCEPT !.kbResults = [docs |-> result.data]]
                [] step = "proposeAction" /\ result.ok ->
                     [L EXCEPT !.proposalResult = result.data]
                [] OTHER -> L
        agentStep == [step |-> step, ok |-> result.ok,
                      detail |-> IF result.ok THEN result.data ELSE [error |-> result.error],
                      fallbackUsed |-> ~result.ok]
    IN /\ run' = [run EXCEPT ![r] =
                    [L1 EXCEPT !.pc = "saveTrace", !.wake = now' + d,
                               !.result = result,
                               !.steps = Append(@, agentStep)]]
       /\ stream' = [stream EXCEPT ![r] = evs]

\* Mutant: the budget is never found exceeded.
budgetExceeded_never(startTime, t) == FALSE

\* Mutant: the budget is always found exceeded.
budgetExceeded_always(startTime, t) == TRUE

\* The budget check of an iteration: Date.now() - startTime > this.flowBudget
budgetExceeded(startTime, t) == t - startTime > flowBudget

\* The head of a loop iteration (lines 134-157): tool lookup, budget check,
\* the running event and tool.execute up to its first await of a timer or
\* of the database; past the last step or over budget, the final decision.
\* outs and jits are what the step's tool will do when its run awaits the
\* database; a tool whose run has no await resolves at once (duration 0,
\* the breaker's onSuccess), and the iteration goes on to the step's
\* record and the creation of its trace row.
Loop(r, L, evs, outs, jits, d) ==
    LET i == NextRegistered(L.plan, L.i)
        L1 == [L EXCEPT !.i = i, !.stepStartTime = now']
    IN IF i > Len(L.plan) \/ budgetExceeded(L.startTime, now')
       THEN Finalize(r, L1, evs, d)
       ELSE LET step == L.plan[i]
                toolName == tools[step]
                evs1 == streamEvent(evs, Callback(L), EvToolUpdate(r, step, "running"))
                L2 == [L1 EXCEPT !.attempted = @ + 1]
            IN IF cbRejects(states, toolName, now')
               THEN /\ states' = getState(states, toolName)
                    /\ AfterExecute(r, L2, evs1, failResult(CircuitOpenError(toolName), 0), d)
               ELSE IF step \in RunsWithoutAwait
               THEN /\ states' = onSuccess(cbEnter(states, toolName, now'), toolName)
                    /\ AfterExecute(r, L2, evs1, okResult(toolRun(step, L1), 0), d)
               ELSE /\ states' = cbEnter(states, toolName, now')
                    /\ LET p == executeWithRetry(outs, jits, toolRun(step, L1))
                       IN run' = [run EXCEPT ![r] =
                                    [L2 EXCEPT !.pc = "tool", !.wake = now' + p.elapsed,
                                               !.pend = p]]
                    /\ stream' = [stream EXCEPT ![r] = evs1]

\* GET /:runId/stream up to its first await: the connected event, which
\* echoes the runId of the URL (req.params.runId), then either the
\* missing-alertId error or executeTriage with the callback.
StreamOpen(r, runId, hasAlertId, alert, plan, d) ==
    /\ run[r].pc = "idle"
    /\ IF hasAlertId
       THEN /\ run' = [run EXCEPT ![r] = NewRun(alert, TRUE, plan, now, d)]
            /\ stream' = [stream EXCEPT ![r] = <<EvConnected(runId)>>]
       ELSE /\ run' = [run EXCEPT ![r] =
                          [pc |-> "closed", outcome |-> "rejected",
                           cause |-> "Missing alertId", callback |-> TRUE,
                           connected |-> TRUE]]
            /\ stream' = [stream EXCEPT ![r] =
                             <<EvConnected(runId), EvError(Msg("Missing alertId"))>>]
    /\ UNCHANGED <<now, states, call, obs, triageRun, agentTrace>>
    /\ UNCHANGED rlvars
    /\ UNCHANGED actvars

\* POST /: executeTriage started without a callback and not awaited; the
\* response hands the route's own runId to the client.
PostTriage(r, alert, plan, d) ==
    /\ run[r].pc = "idle"
    /\ run' = [run EXCEPT ![r] =
                  NewRun(alert, FALSE, plan, now, d) @@ [handed |-> PostRunId(now, AlertId)]]
    /\ UNCHANGED <<now, states, call, obs, triageRun, agentTrace, stream>>
    /\ UNCHANGED rlvars
    /\ UNCHANGED actvars

\* Mutant: a missing alert does not stop the run.
FindAlertDone_goesOn(r, d) ==
    /\ run[r].pc = "findAlert"
    /\ Due(run[r].wake)
    /\ now' = run[r].wake
    /\ run' = [run EXCEPT ![r].pc = "createRun", ![r].wake = now' + d]
    /\ UNCHANGED <<states, call, obs, triageRun, agentTrace, stream>>
    /\ UNCHANGED rlvars
    /\ UNCHANGED actvars

\* prisma.alert.findUnique resolves: 'Alert not found' is thrown to the
\* route, or triageRun.create is awaited.
FindAlertDone(r, d) ==
    /\ run[r].pc = "findAlert"
    /\ Due(run[r].wake)
    /\ now' = run[r].wake
    /\ IF run[r].alert.exists
       THEN /\ run' = [run EXCEPT ![r].pc = "createRun", ![r].wake = now' + d]
            /\ UNCHANGED stream
       ELSE /\ run' = [run EXCEPT ![r].pc = "closed", ![r].outcome = "rejected",
                                  ![r].cause = "Alert not found"]
            /\ stream' = [stream EXCEPT ![r] =
                             IF run[r].callback
                             THEN resWrite(@, run[r].connected, EvError(Msg("Alert not found")))
                             ELSE @]
    /\ UNCHANGED <<states, call, obs, triageRun, agentTrace>>
    /\ UNCHANGED rlvars
    /\ UNCHANGED actvars

\* Mutant: a rejected executeTriage ends the response with no error event.
Reject_silent(r, cause) ==
    /\ run' = [run EXCEPT ![r].pc = "closed", ![r].outcome = "rejected", ![r].cause = cause]
    /\ UNCHANGED stream

\* executeTriage rejects with a persistence error: the stream route's catch
\* writes the error event and ends the response; POST / logs it.
Reject(r, cause) ==
    /\ run' = [run EXCEPT ![r].pc = "closed", ![r].outcome = "rejected", ![r].cause = cause]
    /\ stream' = [stream EXCEPT ![r] =
                     IF run[r].callback
                     THEN resWrite(@, run[r].connected, EvError(Msg(cause)))
                     ELSE @]

\* Mutant: the loop begins whether or not the run row was written.
CreateRunDone_noRow(r, saved, outs, jits, d) ==
    /\ run[r].pc = "createRun"
    /\ Due(run[r].wake)
    /\ now' = run[r].wake
    /\ triageRun' = [triageRun EXCEPT ![r] =
                         IF saved THEN [id |-> RunId(r), ended |-> FALSE] ELSE @]
    /\ Loop(r, run[r],
            streamEvent(stream[r], Callback(run[r]), EvPlanBuilt(r, run[r].plan)),
            outs, jits, d)
    /\ UNCHANGED <<call, obs, agentTrace>>
    /\ UNCHANGED rlvars
    /\ UNCHANGED actvars

\* prisma.triageRun.create settles.  Resolved: the run row exists,
\* plan_built is streamed and the loop begins.  Rejected: so does
\* executeTriage.
CreateRunDone(r, saved, outs, jits, d) ==
    /\ run[r].pc = "createRun"
    /\ Due(run[r].wake)
    /\ now' = run[r].wake
    /\ IF saved
       THEN /\ triageRun' = [triageRun EXCEPT ![r] = [id |-> RunId(r), ended |-> FALSE]]
            /\ Loop(r, run[r],
                    streamEvent(stream[r], Callback(run[r]), EvPlanBuilt(r, run[r].plan)),
                    outs, jits, d)
       ELSE /\ Reject(r, "run not created")
            /\ UNCHANGED <<states, triageRun>>
    /\ UNCHANGED <<call, obs, agentTrace>>
    /\ UNCHANGED rlvars
    /\ UNCHANGED actvars

\* The retry loop of the step's tool settles: the breaker's onSuccess or
\* onFailure, the ToolResult, and the code after tool.execute.
ToolDone(r, d) ==
    /\ run[r].pc = "tool"
    /\ Due(run[r].wake)
    /\ now' = run[r].wake
    /\ LET p == run[r].pend
           toolName == tools[run[r].plan[run[r].i]]
       IN /\ states' = IF p.ok THEN onSuccess(states, toolName)
                       ELSE onFailure(states, toolName, now')
          /\ AfterExecute(r, run[r], stream[r], toolResult(p, p.elapsed), d)
    /\ UNCHANGED <<call, obs, triageRun, agentTrace>>
    /\ UNCHANGED rlvars
    /\ UNCHANGED actvars

\* Mutant: a step that failed, or whose trace row is rejected, ends the run.
SaveTraceDone_rethrows(r, saved, outs, jits, d) ==
    /\ run[r].pc = "saveTrace"
    /\ Due(run[r].wake)
    /\ now' = run[r].wake
    /\ saved \/ run[r].traceFaults < MaxTraceFaults
    /\ IF saved /\ run[r].result.ok
       THEN /\ agentTrace' = [agentTrace EXCEPT ![r] =
                                 Append(@, [runId |-> RunId(r), seq |-> Len(run[r].steps),
                                            step |-> run[r].plan[run[r].i], ok |-> TRUE,
                                            detailJson |-> run[r].steps[Len(run[r].steps)].detail])]
            /\ Loop(r, [run[r] EXCEPT !.i = @ + 1],
                    streamEvent(stream[r], Callback(run[r]),
                                EvToolUpdate(r, run[r].plan[run[r].i], "completed")),
                    outs, jits, d)
       ELSE /\ Reject(r, "step failed")
            /\ UNCHANGED <<states, agentTrace>>
    /\ UNCHANGED <<call, obs, triageRun>>
    /\ UNCHANGED rlvars
    /\ UNCHANGED actvars

\* Mutant: the catch block records the failed step and leaves the flag.
catchBlock_noFlag(L, step, message) ==
    [L EXCEPT !.steps = Append(@, [step |-> step, ok |-> FALSE,
                                   detail |-> [error |-> message],
                                   fallbackUsed |-> TRUE])]

\* The catch block of an iteration (lines 244-255): fallbackUsed is set and
\* a failed step is pushed.
catchBlock(L, step, message) ==
    [L EXCEPT !.fallbackUsed = TRUE,
              !.steps = Append(@, [step |-> step, ok |-> FALSE,
                                   detail |-> [error |-> message],
                                   fallbackUsed |-> TRUE])]

\* prisma.agentTrace.create settles.  Resolved (lines 205-235): the row
\* exists, and the fallback or the completed event follows.  Rejected
\* (the catch block, lines 244-255): a failed step is pushed.  Then the
\* next iteration.
SaveTraceDone(r, saved, outs, jits, d) ==
    /\ run[r].pc = "saveTrace"
    /\ Due(run[r].wake)
    /\ now' = run[r].wake
    /\ LET L == run[r]
           step == L.plan[L.i]
           result == L.result
       IN IF saved
          THEN /\ agentTrace' = [agentTrace EXCEPT ![r] =
                                    Append(@, [runId |-> RunId(r), seq |-> Len(L.steps),
                                               step |-> step, ok |-> result.ok,
                                               detailJson |-> L.steps[Len(L.steps)].detail])]
               /\ IF ~result.ok
                  THEN Loop(r, [L EXCEPT !.i = @ + 1, !.fallbackUsed = TRUE,
                                         !.riskResult = IF step = "riskSignals"
                                                        THEN getFallbackRisk ELSE @],
                            streamEvent(stream[r], Callback(L),
                                        EvFallback(r, step, result.error)),
                            outs, jits, d)
                  ELSE Loop(r, [L EXCEPT !.i = @ + 1],
                            streamEvent(stream[r], Callback(L),
                                        EvToolUpdate(r, step, "completed")),
                            outs, jits, d)
          ELSE /\ L.traceFaults < MaxTraceFaults
               /\ UNCHANGED agentTrace
               /\ Loop(r, [catchBlock(L, step, Msg("trace not saved"))
                              EXCEPT !.i = @ + 1, !.traceFaults = @ + 1],
                       stream[r], outs, jits, d)
    /\ UNCHANGED <<call, obs, triageRun>>
    /\ UNCHANGED rlvars
    /\ UNCHANGED actvars

\* prisma.triageRun.update settles.  Resolved: the run row is final, the
\* decision is streamed and returned; the stream route then writes
\* completed and ends the response.  Rejected: so does executeTriage.
UpdateRunDone(r, saved) ==
    /\ run[r].pc = "updateRun"
    /\ Due(run[r].wake)
    /\ now' = run[r].wake
    /\ LET L == run[r] IN
       IF saved
       THEN /\ triageRun' = [triageRun EXCEPT ![r] =
                                [id |-> RunId(r), ended |-> TRUE, risk |-> L.risk,
                                 reasons |-> L.reasons, fallbackUsed |-> L.fallbackUsed,
                                 latencyMs |-> L.latencyMs]]
            /\ stream' = [stream EXCEPT ![r] =
                             IF L.callback
                             THEN resWrite(streamEvent(@, Callback(L), EvDecision(r, L)),
                                           L.connected, EvStreamCompleted)
                             ELSE @]
            /\ run' = [run EXCEPT ![r].pc = "closed", ![r].outcome = "resolved"]
       ELSE /\ Reject(r, "run not updated")
            /\ UNCHANGED triageRun
    /\ UNCHANGED <<states, call, obs, agentTrace>>
    /\ UNCHANGED rlvars
    /\ UNCHANGED actvars

\* Mutant: a closed connection aborts the run.
Disconnect_aborts(r) ==
    /\ run[r].pc \notin {"idle", "closed"}
    /\ run[r].callback
    /\ run[r].connected
    /\ Len(stream[r]) \in DisconnectPoints
    /\ run' = [run EXCEPT ![r].connected = FALSE, ![r].pc = "closed",
                          ![r].outcome = "rejected", ![r].cause = "disconnected"]
    /\ UNCHANGED <<now, states, call, obs, triageRun, agentTrace, stream>>
    /\ UNCHANGED rlvars
    /\ UNCHANGED actvars

\* The client closes the connection of a stream in flight.
Disconnect(r) ==
    /\ run[r].pc \notin {"idle", "closed"}
    /\ run[r].callback
    /\ run[r].connected
    /\ Len(stream[r]) \in DisconnectPoints
    /\ run' = [run EXCEPT ![r].connected = FALSE]
    /\ UNCHANGED <<now, states, call, obs, triageRun, agentTrace, stream>>
    /\ UNCHANGED rlvars
    /\ UNCHANGED actvars

\* The breaker is the process's singleton: a run finds it fresh, or as
\* earlier runs left it.
Init ==
    /\ now = 0
    /\ states \in BreakerSamples
    /\ call = <<>>
    /\ obs = ZeroObs
    /\ run = [r \in Runs |-> IdleRun]
    /\ triageRun = [r \in Runs |-> Null]
    /\ agentTrace = [r \in Runs |-> <<>>]
    /\ stream = [r \in Runs |-> <<>>]
    /\ redis = <<>>
    /\ req = <<>>
    /\ log = <<>>
    /\ db = <<>>
    /\ act = <<>>

Next ==
    \/ \E r \in Runs, hasAlertId \in BOOLEAN, alert \in AlertSamples, plan \in Plans,
          d \in DbDurations : StreamOpen(r, ParamRunId(r), hasAlertId, alert, plan, d)
    \/ \E r \in Runs, alert \in AlertSamples, plan \in Plans, d \in DbDurations :
          PostTriage(r, alert, plan, d)
    \/ \E r \in Runs, d \in DbDurations : FindAlertDone(r, d)
    \/ \E r \in Runs, saved \in BOOLEAN, outs \in StepScripts, d \in DbDurations :
          \E jits \in StepJitters(outs) : CreateRunDone(r, saved, outs, jits, d)
    \/ \E r \in Runs, d \in DbDurations : ToolDone(r, d)
    \/ \E r \in Runs, saved \in BOOLEAN, outs \in StepScripts, d \in DbDurations :
          \E jits \in StepJitters(outs) : SaveTraceDone(r, saved, outs, jits, d)
    \/ \E r \in Runs, saved \in BOOLEAN : UpdateRunDone(r, saved)
    \/ \E r \in Runs : Disconnect(r)

Spec == Init /\ [][Next]_vars

\* FairSpec: the streams of the default plan.  The tools do whatever
\* StepScripts allows; the creation of the run row, of a trace row and the
\* final update resolve or reject; the client may close its connection.
\* What a run awaits settles (the database answers, the retry loop ends by
\* its timers); nothing obliges a client to open a stream or to leave it.
Settle(r) ==
    \/ \E d \in DbDurations : FindAlertDone(r, d)
    \/ \E saved \in BOOLEAN, outs \in StepScripts, d \in DbDurations :
          \E jits \in StepJitters(outs) : CreateRunDone(r, saved, outs, jits, d)
    \/ \E d \in DbDurations : ToolDone(r, d)
    \/ \E saved \in BOOLEAN, outs \in StepScripts, d \in DbDurations :
          \E jits \in StepJitters(outs) : SaveTraceDone(r, saved, outs, jits, d)
    \/ \E saved \in BOOLEAN : UpdateRunDone(r, saved)

NextStream ==
    \/ \E r \in Runs, hasAlertId \in BOOLEAN, alert \in AlertSamples, d \in DbDurations :
          StreamOpen(r, ParamRunId(r), hasAlertId, alert, defaultPlan, d)
    \/ \E r \in Runs : Settle(r)
    \/ \E r \in Runs : Disconnect(r)

FairSpec == Init /\ [][NextStream]_vars /\ \A r \in Runs : WF_vars(Settle(r))

\* LiveSpec: the runs of both routes and both plans while the database
\* stays available once the run row is written: the creation of the run row
\* resolves or rejects, the trace rows and the final update are saved.  The
\* client of a stream may close its connection.
SettleSaved(r) ==
    \/ \E d \in DbDurations : FindAlertDone(r, d)
    \/ \E saved \in BOOLEAN, outs \in StepScripts, d \in DbDurations :
          \E jits \in StepJitters(outs) : CreateRunDone(r, saved, outs, jits, d)
    \/ \E d \in DbDurations : ToolDone(r, d)
    \/ \E outs \in StepScripts, d \in DbDurations :
          \E jits \in StepJitters(outs) : SaveTraceDone(r, TRUE, outs, jits, d)
    \/ UpdateRunDone(r, TRUE)

NextSaved ==
    \/ \E r \in Runs, alert \in AlertSamples, plan \in Plans, d \in DbDurations :
          StreamOpen(r, ParamRunId(r), TRUE, alert, plan, d)
    \/ \E r \in Runs, alert \in AlertSamples, plan \in Plans, d \in DbDurations :
          PostTriage(r, alert, plan, d)
    \/ \E r \in Runs : SettleSaved(r)
    \/ \E r \in Runs : Disconnect(r)

LiveSpec == Init /\ [][NextSaved]_vars /\ \A r \in Runs : WF_vars(SettleSaved(r))

\* SpecClient: one triage by the web client (TriageDrawer): the start
\* request, POST /api/triage, and on its response the stream of the
\* returned run id, GET /:runId/stream?alertId=..., for the same alert.
\* Each route calls executeTriage of the orchestrator singleton; the two
\* executions share the breaker.  The database stays available; a tool
\* succeeds at once or throws at every attempt.
ClientRuns == {1, 2}        \* executeTriage calls: of the POST, of the stream
ClientScripts == {s \in StepScripts : s[1].kind \in {"ok", "throw"}}
ClientJitters(s) == {j \in StepJitters(s) : \A k \in DOMAIN j : j[k] = 0}

\* api.startTriage(alertId)
ClientPost(alert, d) ==
    /\ alert.exists
    /\ PostTriage(1, alert, defaultPlan, d)

\* startTriageMutation.onSuccess: startStreaming(data.runId), which opens
\* /api/triage/${runId}/stream?alertId=${alert.id} with the id the POST
\* returned
ClientStream(d) ==
    /\ run[1].pc # "idle"
    /\ StreamOpen(2, run[1].handed, TRUE, run[1].alert, defaultPlan, d)

InitClient ==
    /\ now = 0
    /\ states \in BreakerSamples
    /\ call = <<>>
    /\ obs = ZeroObs
    /\ run = [r \in ClientRuns |-> IdleRun]
    /\ triageRun = [r \in ClientRuns |-> Null]
    /\ agentTrace = [r \in ClientRuns |-> <<>>]
    /\ stream = [r \in ClientRuns |-> <<>>]
    /\ redis = <<>>
    /\ req = <<>>
    /\ log = <<>>
    /\ db = <<>>
    /\ act = <<>>

NextClient ==
    \/ \E alert \in AlertSamples, d \in DbDurations : ClientPost(alert, d)
    \/ \E d \in DbDurations : ClientStream(d)
    \/ \E r \in ClientRuns, d \in DbDurations : FindAlertDone(r, d)
    \/ \E r \in ClientRuns, outs \in ClientScripts, d \in DbDurations :
          \E jits \in ClientJitters(outs) : CreateRunDone(r, TRUE, outs, jits, d)
    \/ \E r \in ClientRuns, d \in DbDurations : ToolDone(r, d)
    \/ \E r \in ClientRuns, outs \in ClientScripts, d \in DbDurations :
          \E jits \in ClientJitters(outs) : SaveTraceDone(r, TRUE, outs, jits, d)
    \/ \E r \in ClientRuns : UpdateRunDone(r, TRUE)

SpecClient == InitClient /\ [][NextClient]_vars

\* SpecSlowDb: the runs of the default plan against a database whose calls
\* take 5 ms or 3 s each (the budget's clock starts before the alert lookup
\* and the creation of the run row).  The database stays available; a tool
\* succeeds at once or throws at every attempt.
SlowDbDurations == {5, 3000}

NextSlowDb ==
    \/ \E r \in Runs, alert \in AlertSamples, d \in SlowDbDurations :
          StreamOpen(r, ParamRunId(r), TRUE, alert, defaultPlan, d)
    \/ \E r \in Runs, alert \in AlertSamples, d \in SlowDbDurations :
          PostTriage(r, alert, defaultPlan, d)
    \/ \E r \in Runs, d \in SlowDbDurations : FindAlertDone(r, d)
    \/ \E r \in Runs, outs \in ClientScripts, d \in SlowDbDurations :
          \E jits \in ClientJitters(outs) : CreateRunDone(r, TRUE, outs, jits, d)
    \/ \E r \in Runs, d \in SlowDbDurations : ToolDone(r, d)
    \/ \E r \in Runs, outs \in ClientScripts, d \in SlowDbDurations :
          \E jits \in ClientJitters(outs) : SaveTraceDone(r, TRUE, outs, jits, d)
    \/ \E r \in Runs : UpdateRunDone(r, TRUE)

SpecSlowDb == Init /\ [][NextSlowDb]_vars

(***************************************************************************)
(* The rate limiter (RateLimiter.checkLimit)                               *)
(***************************************************************************)
maxTokens == 5
refillRate == 5
refillInterval == 1000
bucketTtl == 60

\* The callers: each sends requests with its own headers and address, to
\* one API instance or to several (an instance keeps nothing but its
\* configuration; the bucket lives in the store).  Callers 1 and 2 present
\* the same API key from two addresses, caller 3 presents none.
Requests ==
    <<[ip |-> "10.0.0.1", apiKey |-> "k1"],
      [ip |-> "10.0.0.2", apiKey |-> "k1"],
      [ip |-> "10.0.0.1"]>>
RlProcs == DOMAIN Requests
MaxSeqRequests == 7
MaxRequests == 3
Burst == 4
Instants == {200, 1000, 70000}

\* Mutant: the client is always identified by its address.
getClientId_byAddress(request) == <<"ip", request.ip>>

getClientId(request) ==
    IF "apiKey" \in DOMAIN request /\ request.apiKey # ""
    THEN <<"key", request.apiKey>>
    ELSE <<"ip", request.ip>>

Clients == {getClientId(Requests[p]) : p \in RlProcs}


(***************************************************************************)
(* The numbers of the rate limiter.  A JavaScript number is an IEEE 754    *)
(* binary64 value; tokens, the refill and the retry delay are computed in  *)
(* it (rateLimiter.ts lines 44-46, 55-56, 76-77), and every operation      *)
(* rounds its exact result to 53 significant bits, ties to even.  The      *)
(* values here are finite and not negative.  A number is [m, e], of value  *)
(* m * 2^e, m being held as four 16-bit limbs, least significant first.    *)
(* An integer below 2^31 is held with e = 0 (m is the integer); every      *)
(* other number with 2^52 <= m < 2^53.  Integers are added, subtracted,    *)
(* multiplied and divided as integers when the exact result is one, since  *)
(* binary64 holds the integers below 2^53 exactly.                         *)
(***************************************************************************)
B16 == 65536
\* 2^r for r in 0..16
Pow2Table == <<1, 2, 4, 8, 16, 32, 64, 128, 256, 512, 1024, 2048, 4096, 8192,
               16384, 32768, 65536>>
Pow2(r) == Pow2Table[r + 1]
UZero == <<0, 0, 0, 0>>
UOne == <<1, 0, 0, 0>>
Limb(a, i) == IF i < 1 \/ i > 4 THEN 0 ELSE a[i]
UFromInt(n) == <<n % B16, n \div B16, 0, 0>>
UToInt(a) == a[1] + B16 * a[2]

\* a div 2^s and a * 2^s (the bits above the 64th are dropped); lo and hi
\* are 2^(s % 16) and 2^(16 - s % 16), and i is the limb the result's limb
\* starts in
ShrLimb(a, i, lo, hi) == (Limb(a, i) \div lo) + (Limb(a, i + 1) % lo) * hi
ShrLimbs(a, q, lo, hi) ==
    <<ShrLimb(a, 1 + q, lo, hi), ShrLimb(a, 2 + q, lo, hi),
      ShrLimb(a, 3 + q, lo, hi), ShrLimb(a, 4 + q, lo, hi)>>
UShr(a, s) == ShrLimbs(a, s \div 16, Pow2(s % 16), Pow2(16 - (s % 16)))
ShlLimb(a, i, lo, hi) == (Limb(a, i) % hi) * lo + (Limb(a, i - 1) \div hi)
ShlLimbs(a, q, lo, hi) ==
    <<ShlLimb(a, 1 - q, lo, hi), ShlLimb(a, 2 - q, lo, hi),
      ShlLimb(a, 3 - q, lo, hi), ShlLimb(a, 4 - q, lo, hi)>>
UShl(a, s) == ShlLimbs(a, s \div 16, Pow2(s % 16), Pow2(16 - (s % 16)))

\* The limbs of s1 + s2 * 2^16 + s3 * 2^32 + s4 * 2^48: the carries (or
\* borrows) are passed upwards
Carry2(l1, l2, s3, s4) == <<l1, l2, s3 % B16, (s4 + s3 \div B16) % B16>>
Carry3(l1, s2, s3, s4) == Carry2(l1, s2 % B16, s3 + s2 \div B16, s4)
Carry4(s1, s2, s3, s4) == Carry3(s1 % B16, s2 + s1 \div B16, s3, s4)
UAdd(a, b) == Carry4(a[1] + b[1], a[2] + b[2], a[3] + b[3], a[4] + b[4])
\* a - b, for a >= b
USub(a, b) == Carry4(a[1] - b[1], a[2] - b[2], a[3] - b[3], a[4] - b[4])
\* a * k and a div k with its remainder, for 0 < k <= 1024
UMulSmall(a, k) == Carry4(a[1] * k, a[2] * k, a[3] * k, a[4] * k)
Div1(k, q4, q3, q2, t1) == [q |-> <<t1 \div k, q2, q3, q4>>, r |-> t1 % k]
Div2(a, k, q4, q3, t2) == Div1(k, q4, q3, t2 \div k, (t2 % k) * B16 + a[1])
Div3(a, k, q4, t3) == Div2(a, k, q4, t3 \div k, (t3 % k) * B16 + a[2])
UDivSmall(a, k) == Div3(a, k, a[4] \div k, (a[4] % k) * B16 + a[3])
ULess(a, b) ==
    \/ a[4] < b[4]
    \/ a[4] = b[4] /\ a[3] < b[3]
    \/ a[4] = b[4] /\ a[3] = b[3] /\ a[2] < b[2]
    \/ a[4] = b[4] /\ a[3] = b[3] /\ a[2] = b[2] /\ a[1] < b[1]
BitLen4(x) == IF x >= 8 THEN 4 ELSE IF x >= 4 THEN 3 ELSE IF x >= 2 THEN 2 ELSE x
BitLen16(x) ==
    IF x >= 4096 THEN 12 + BitLen4(x \div 4096)
    ELSE IF x >= 256 THEN 8 + BitLen4(x \div 256)
    ELSE IF x >= 16 THEN 4 + BitLen4(x \div 16)
    ELSE BitLen4(x)
UBitLen(a) ==
    IF a[4] # 0 THEN 48 + BitLen16(a[4])
    ELSE IF a[3] # 0 THEN 32 + BitLen16(a[3])
    ELSE IF a[2] # 0 THEN 16 + BitLen16(a[2])
    ELSE BitLen16(a[1])

\* (n + f) * 2^e rounded to 53 significant bits, ties to even, where
\* 0 < f < 1 if sticky and f = 0 otherwise (sticky only with n of more
\* than 53 bits): [m, e] with 2^52 <= m < 2^53, or zero.
\* RoundCut: n has 53 + s bits, t is n without its last s - 1 bits (the 53
\* bits kept and the bit below them), e the exponent of the kept bits.
Carry53(q, e) == IF q[4] >= 32 THEN [m |-> UShr(q, 1), e |-> e + 1] ELSE [m |-> q, e |-> e]
RoundCut(n, e, sticky, s, t) ==
    IF t[1] % 2 = 1 /\ (sticky \/ (t[1] \div 2) % 2 = 1 \/ UShl(t, s - 1) # n)
    THEN Carry53(UAdd(UShr(t, 1), UOne), e)
    ELSE [m |-> UShr(t, 1), e |-> e]
RoundLen(n, e, sticky, len) ==
    IF len = 0 THEN [m |-> UZero, e |-> 0]
    ELSE IF len <= 53 THEN [m |-> UShl(n, 53 - len), e |-> e - (53 - len)]
    ELSE RoundCut(n, e + len - 53, sticky, len - 53, UShr(n, len - 54))
Round53(n, e, sticky) == RoundLen(n, e, sticky, UBitLen(n))
\* The number of the rounded value: an integer below 2^31 with e = 0.
NarrowTo(x, whole) == IF UShl(whole, -x.e) = x.m THEN [m |-> whole, e |-> 0] ELSE x
Narrow(x) == IF x.e >= -52 /\ x.e <= -22 THEN NarrowTo(x, UShr(x.m, -x.e)) ELSE x
Round(n, e, sticky) == Narrow(Round53(n, e, sticky))
\* The 53-bit significand and its exponent
Wide(x) == IF x.e = 0 THEN Round53(x.m, 0, FALSE) ELSE x

\* The number of an integer 0 <= n < 2^31
Num(n) == [m |-> UFromInt(n), e |-> 0]
NumOne == Num(1)
WideLess(a, b) ==
    IF b.m = UZero THEN FALSE
    ELSE IF a.m = UZero THEN TRUE
    ELSE a.e < b.e \/ (a.e = b.e /\ ULess(a.m, b.m))
NumLess(x, y) ==
    IF x.e = 0 /\ y.e = 0 THEN ULess(x.m, y.m) ELSE WideLess(Wide(x), Wide(y))
NumMin(x, y) == IF NumLess(y, x) THEN y ELSE x      \* Math.min
\* x + y: the smaller number is aligned to the larger one, which has three
\* more bits below its 53; full is the smaller number's significand with
\* three more bits, part what is left of it after the alignment by d bits
AddPart(hi, full, d, part) ==
    Round(UAdd(UShl(hi.m, 3), part), hi.e - 3, UShl(part, d) # full)
AddAligned(hi, full, d) == AddPart(hi, full, d, UShr(full, d))
WideAdd(hi, lo) ==
    IF lo.m = UZero THEN Round(hi.m, hi.e, FALSE)
    ELSE AddAligned(hi, UShl(lo.m, 3), hi.e - lo.e)
NumAdd(x, y) ==
    IF x.e = 0 /\ y.e = 0 /\ x.m[2] < 16384 /\ y.m[2] < 16384
    THEN Num(UToInt(x.m) + UToInt(y.m))
    ELSE IF NumLess(x, y) THEN WideAdd(Wide(y), Wide(x))
    ELSE WideAdd(Wide(x), Wide(y))
\* x - y, for x >= y
SubSticky(a, diff, sticky) ==
    Round(IF sticky THEN USub(diff, UOne) ELSE diff, a.e - 3, sticky)
SubPart(a, full, d, part) ==
    SubSticky(a, USub(UShl(a.m, 3), part), UShl(part, d) # full)
SubAligned(a, full, d) == SubPart(a, full, d, UShr(full, d))
WideSub(a, b) ==
    IF b.m = UZero THEN Round(a.m, a.e, FALSE)
    ELSE SubAligned(a, UShl(b.m, 3), a.e - b.e)
NumSub(x, y) ==
    IF x.e = 0 /\ y.e = 0
    THEN Num(UToInt(x.m) - UToInt(y.m))
    ELSE WideSub(Wide(x), Wide(y))
\* x * k and x / k, for an integer 0 < k <= 1024
WideMul(a, k) == Round(UMulSmall(a.m, k), a.e, FALSE)
NumMul(x, k) ==
    IF x.e = 0 /\ x.m[2] < 16
    THEN Num(UToInt(x.m) * k)
    ELSE WideMul(Wide(x), k)
DivRound(d, e) == Round(d.q, e, d.r # 0)
WideDiv(a, k) == DivRound(UDivSmall(UShl(a.m, 11), k), a.e - 11)
NumDiv(x, k) ==
    IF x.e = 0 /\ UToInt(x.m) % k = 0
    THEN Num(UToInt(x.m) \div k)
    ELSE WideDiv(Wide(x), k)
\* Math.ceil(x), for x < 2^31
CeilOf(x, q) == UToInt(q) + (IF UShl(q, -x.e) # x.m THEN 1 ELSE 0)
NumCeil(x) == IF x.e = 0 THEN UToInt(x.m) ELSE CeilOf(x, UShr(x.m, -x.e))

\* Mutant: the store forgets every bucket at once.
redisGet_forgets(store, key, t) == Null

\* redisClient.get at time t: the stored bucket, null once its TTL has run
\* out.
redisGet(store, key, t) ==
    IF store.data[key] # Null /\ t < store.data[key].expires
    THEN [tokens |-> store.data[key].tokens, lastRefill |-> store.data[key].lastRefill]
    ELSE Null

\* redisClient.setEx applied at time t with the TTL in seconds.
redisSetEx(store, key, ttl, bucket, t) ==
    [store EXCEPT !.data[key] = [tokens |-> bucket.tokens, lastRefill |-> bucket.lastRefill,
                                 expires |-> t + ttl * 1000]]

\* Mutant: the bucket is never refilled.
refill_never(bucketData, t) ==
    IF bucketData # Null THEN bucketData.tokens ELSE Num(maxTokens)

NumMaxTokens == Num(maxTokens)

\* Lines 38-52: the tokens the request finds:
\* Math.min(maxTokens, tokens + (timeElapsed / refillInterval) * refillRate)
\* for a stored bucket, each operation rounded, and maxTokens for none.
refill(bucketData, t) ==
    IF bucketData # Null
    THEN LET timeElapsed == t - bucketData.lastRefill
             tokensToAdd == NumMul(NumDiv(Num(timeElapsed), refillInterval), refillRate)
         IN NumMin(NumMaxTokens, NumAdd(bucketData.tokens, tokensToAdd))
    ELSE NumMaxTokens

\* Line 55: tokens >= 1
HasToken(tokens) == ~NumLess(tokens, NumOne)
\* Line 56: tokens -= 1
takeToken(tokens) == NumSub(tokens, NumOne)

\* Lines 76-77: Math.ceil((1 - tokens) / refillRate * refillInterval), then
\* Math.ceil(retryAfterMs / 1000).
retryAfterMs(tokens) ==
    NumCeil(NumMul(NumDiv(NumSub(NumOne, tokens), refillRate), refillInterval))
retryAfterSeconds(tokens) == NumCeil(NumDiv(Num(retryAfterMs(tokens)), 1000))

IdleReq == [pc |-> "idle"]
InFlight == {p \in RlProcs : req[p].pc # "idle"}

\* A checkLimit call that ended: next() was called (allowed) or the 429
\* response was sent.  t is its Date.now(); failOpen tells the calls let
\* through by the catch block; next counts the calls of next().
Allowed(t, failOpen) ==
    [t |-> t, status |-> 200, retryAfter |-> 0, failOpen |-> failOpen, next |-> 1]
Rejected(t, tokens) ==
    [t |-> t, status |-> 429, retryAfter |-> retryAfterSeconds(tokens), failOpen |-> FALSE,
     next |-> 0]

\* checkLimit up to its first await (lines 26-32): the client's key, and
\* the GET sent to the store.
RlBegin(p, max) ==
    /\ req[p].pc = "idle"
    /\ obs < max
    /\ obs' = obs + 1
    /\ req' = [req EXCEPT ![p] = [pc |-> "get", clientId |-> getClientId(Requests[p])]]
    /\ UNCHANGED <<now, states, call, run, triageRun, agentTrace, stream, redis, log>>
    /\ UNCHANGED actvars

\* Mutant: a rejected GET is answered with 429 (fail closed).
RlGetDone_failClosed(p) ==
    /\ req[p].pc = "get"
    /\ LET clientId == req[p].clientId
           tokens == IF redis.up THEN refill(redisGet(redis, clientId, now), now) ELSE Num(0)
       IN IF HasToken(tokens)
          THEN /\ req' = [req EXCEPT ![p] =
                             [pc |-> "setEx", clientId |-> clientId,
                              tokens |-> takeToken(tokens), lastRefill |-> now]]
               /\ UNCHANGED log
          ELSE /\ log' = [log EXCEPT ![clientId] = Append(@, Rejected(now, tokens))]
               /\ req' = [req EXCEPT ![p] = IdleReq]
    /\ UNCHANGED <<now, states, call, obs, run, triageRun, agentTrace, stream, redis>>
    /\ UNCHANGED actvars

\* redisClient.get settles.  Resolved (lines 33-84): the refill, then the
\* token is taken and the SETEX sent, or the 429 response.  Rejected
\* (lines 85-89): next().
RlGetDone(p) ==
    /\ req[p].pc = "get"
    /\ LET clientId == req[p].clientId
           tokens == refill(redisGet(redis, clientId, now), now)
       IN IF ~redis.up
          THEN /\ log' = [log EXCEPT ![clientId] = Append(@, Allowed(now, TRUE))]
               /\ req' = [req EXCEPT ![p] = IdleReq]
          ELSE IF HasToken(tokens)
          THEN /\ req' = [req EXCEPT ![p] =
                             [pc |-> "setEx", clientId |-> clientId,
                              tokens |-> takeToken(tokens), lastRefill |-> now]]
               /\ UNCHANGED log
          ELSE /\ log' = [log EXCEPT ![clientId] = Append(@, Rejected(now, tokens))]
               /\ req' = [req EXCEPT ![p] = IdleReq]
    /\ UNCHANGED <<now, states, call, obs, run, triageRun, agentTrace, stream, redis>>
    /\ UNCHANGED actvars

\* redisClient.setEx settles.  Resolved: the bucket is stored for 60 s and
\* next() is called (line 65).  Rejected: next() from the catch block.
RlSetExDone(p) ==
    /\ req[p].pc = "setEx"
    /\ LET clientId == req[p].clientId
       IN /\ redis' = IF redis.up
                      THEN redisSetEx(redis, clientId, bucketTtl, req[p], now)
                      ELSE redis
          /\ log' = [log EXCEPT ![clientId] =
                        Append(@, Allowed(req[p].lastRefill, ~redis.up))]
    /\ req' = [req EXCEPT ![p] = IdleReq]
    /\ UNCHANGED <<now, states, call, obs, run, triageRun, agentTrace, stream>>
    /\ UNCHANGED actvars

\* The store becomes unavailable: its commands are rejected from now on.
RlOutage ==
    /\ redis.up
    /\ redis' = [redis EXCEPT !.up = FALSE]
    /\ UNCHANGED <<now, states, call, obs, run, triageRun, agentTrace, stream, req, log>>
    /\ UNCHANGED actvars

\* Time passes, up to one of the instants at which requests arrive.
RlTick(T) ==
    /\ T > now
    /\ now' = T
    /\ UNCHANGED <<states, call, obs, run, triageRun, agentTrace, stream, redis, req, log>>
    /\ UNCHANGED actvars

\* The bucket and the log of a client after n requests made one after the
\* other at time 0, from no stored bucket.
RECURSIVE BucketAfter(_)
BucketAfter(n) ==
    IF n = 0 THEN Null
    ELSE [tokens |-> takeToken(refill(BucketAfter(n - 1), 0)), lastRefill |-> 0,
          expires |-> bucketTtl * 1000]
LogAfter(n) == [k \in 1..n |-> Allowed(0, FALSE)]

InitRL(n) ==
    /\ now = 0
    /\ states = <<>>
    /\ call = <<>>
    /\ obs = 0
    /\ run = <<>>
    /\ triageRun = <<>>
    /\ agentTrace = <<>>
    /\ stream = <<>>
    /\ redis = [up |-> TRUE,
                data |-> [c \in Clients |->
                             IF c = getClientId(Requests[1]) THEN BucketAfter(n) ELSE Null]]
    /\ req = [p \in RlProcs |-> IdleReq]
    /\ log = [c \in Clients |->
                 IF c = getClientId(Requests[1]) THEN LogAfter(n) ELSE <<>>]
    /\ db = <<>>
    /\ act = <<>>

\* SpecRLSeq: requests made one at a time, from an empty store.
NextRLSeq ==
    \/ \E p \in RlProcs : InFlight = {} /\ RlBegin(p, MaxSeqRequests)
    \/ \E p \in RlProcs : RlGetDone(p)
    \/ \E p \in RlProcs : RlSetExDone(p)
    \/ RlOutage
    \/ \E T \in Instants : RlTick(T)

SpecRLSeq == InitRL(0) /\ [][NextRLSeq]_vars

\* SpecRL: requests in flight together, after a burst of the first caller's
\* requests.
NextRL ==
    \/ \E p \in RlProcs : RlBegin(p, MaxRequests)
    \/ \E p \in RlProcs : RlGetDone(p)
    \/ \E p \in RlProcs : RlSetExDone(p)
    \/ RlOutage
    \/ \E T \in Instants : RlTick(T)

SpecRL == InitRL(Burst) /\ [][NextRL]_vars

(***************************************************************************)
(* SpecAct: the routes that act on an alert, its card and its cases: the   *)
(* action routes, the two alert routes of the triage router, and the       *)
(* ingest route, which shares the Idempotency-Key cache with freeze-card   *)
(* and open-dispute                                                        *)
(***************************************************************************)
idempotencyTtl == 3600          \* seconds a cached response is kept
MaxActRequests == 2             \* requests made in one behaviour
\* The requests of the clients: two carrying one key to freeze-card, two
\* carrying another to open-dispute, an ingest of one transaction under
\* the key of the freeze-card requests, and one request to each of the
\* other routes.
ActRequests ==
    <<[route |-> "freeze-card", key |-> "k1", cardId |-> "card_1", alertId |-> "alert_1"],
      [route |-> "freeze-card", key |-> "k1", cardId |-> "card_1", alertId |-> "alert_1"],
      [route |-> "open-dispute", key |-> "k2", txnId |-> "txn_1", alertId |-> "alert_1"],
      [route |-> "open-dispute", key |-> "k2", txnId |-> "txn_1", alertId |-> "alert_1"],
      [route |-> "ingest", key |-> "k1", transactions |-> <<"cust_1-shop-100-0">>],
      [route |-> "contact-customer", customerId |-> "cust_1", alertId |-> "alert_1"],
      [route |-> "mark-false-positive", alertId |-> "alert_1"],
      [route |-> "execute-action", alertId |-> "alert_1"],
      [route |-> "update-alert-status", alertId |-> "alert_1"]>>
ActProcs == DOMAIN ActRequests
Keyed == {p \in ActProcs : "key" \in DOMAIN ActRequests[p]}
IdemKeys == {<<"idempotency", ActRequests[p].key>> : p \in Keyed}
\* The actionType of a body: the four the orchestrator knows and another
ActionTypes ==
    {"freeze_card", "open_dispute", "contact_customer", "mark_false_positive", "escalate"}
\* ... or none: an actionType that is absent or empty is the empty string
BodyActionTypes == ActionTypes \cup {""}
\* The actionParams of an execute-action body: absent, or an object
ActionParams == {Undefined, [cardId |-> "card_1"]}
\* The message of a contact-customer body: one that passes, one of ten
\* blanks, one that PromptInjectionGuard.sanitize rejects
Messages == {"valid", "blank", "injection"}
Otps == {"none", "123456", "000000"}    \* the otp of a freeze-card body
KycLevels == {"full", "basic"}
ActInstants == {1000, 3600000}          \* instants the clock is moved to

\* JSON.stringify and JSON.parse of a response
JSONstringify(v) == [json |-> v]
JSONparse(s) == s.json

\* redisClient.get and redisClient.setEx on a string value
cacheGet(store, key, t) ==
    IF store.data[key] # Null /\ t < store.data[key].expires
    THEN store.data[key].value
    ELSE Null
cacheSetEx(store, key, ttl, value, t) ==
    [store EXCEPT !.data[key] = [value |-> value, expires |-> t + ttl * 1000]]

IdleAct == [pc |-> "idle"]
IdemKey(p) == <<"idempotency", ActRequests[p].key>>

\* res.json(body), and an ApiError the error handler turns into a response
Json(body) == [code |-> 200, body |-> body]
ApiError(message, statusCode) == [code |-> statusCode, body |-> [error |-> message]]
Respond(p, response) ==
    act' = [act EXCEPT ![p] = [@ EXCEPT !.pc = "done"] @@ [response |-> response]]

\* The side effects a request has performed.
Did(p) == IF "did" \in DOMAIN act[p] THEN act[p].did ELSE {}

\* newStatus of updateAlertStatusAfterAction
alertStatusAfter(actionType) ==
    CASE actionType = "freeze_card" -> "resolved"
      [] actionType = "open_dispute" -> "disputed"
      [] actionType = "contact_customer" -> "pending_customer"
      [] actionType = "mark_false_positive" -> "false_positive"
      [] OTHER -> "resolved"

\* A handler that starts with the idempotency check, up to its first
\* await: redisClient.get of the key.
ActBegin(p, otp) ==
    /\ act[p].pc = "idle"
    /\ p \in Keyed
    /\ obs < MaxActRequests
    /\ obs' = obs + 1
    /\ act' = [act EXCEPT ![p] =
                  [pc |-> "get", start |-> now, did |-> {},
                   otp |-> IF ActRequests[p].route = "freeze-card" THEN otp ELSE "none"]]
    /\ UNCHANGED <<now, redis, db>>
    /\ UNCHANGED <<states, call, run, triageRun, agentTrace, stream, req, log>>

\* redisClient.get resolved: the cached response is returned, or the body
\* is validated (the bodies are valid) and the first lookup awaited.
ActGetDone(p) ==
    /\ act[p].pc = "get"
    /\ LET cached == cacheGet(redis, IdemKey(p), now)
       IN IF cached # Null
          THEN Respond(p, Json(JSONparse(cached)))
          ELSE act' = [act EXCEPT ![p] =
                          [@ EXCEPT !.pc = CASE ActRequests[p].route = "freeze-card" -> "findCard"
                                             [] ActRequests[p].route = "open-dispute" -> "findTxn"
                                             [] ActRequests[p].route = "ingest" -> "upsert"]
                          @@ [requestId |-> [nanoid |-> p]]]
    /\ UNCHANGED <<now, redis, db>>
    /\ UNCHANGED <<states, call, obs, run, triageRun, agentTrace, stream, req, log>>

\* freeze-card: prisma.card.findUnique resolved; the OTP and status checks.
FreezeFindDone(p) ==
    /\ act[p].pc = "findCard"
    /\ LET card == db.card
           requiresOTP == card.kycLevel # "full"
       IN IF requiresOTP /\ act[p].otp = "none"
          THEN act' = [act EXCEPT ![p] =
                          [@ EXCEPT !.pc = "setEx"]
                          @@ [response |-> [status |-> "PENDING_OTP",
                                            requestId |-> act[p].requestId],
                              card |-> card]]
          ELSE IF requiresOTP /\ act[p].otp # "123456"
          THEN Respond(p, ApiError("Invalid OTP. Use 123456 for testing.", 400))
          ELSE IF card.status = "frozen"
          THEN Respond(p, ApiError("Card is already frozen", 400))
          ELSE act' = [act EXCEPT ![p] = [@ EXCEPT !.pc = "updateCard"] @@ [card |-> card]]
    /\ UNCHANGED <<now, redis, db>>
    /\ UNCHANGED <<states, call, obs, run, triageRun, agentTrace, stream, req, log>>

\* freeze-card: prisma.card.update resolved.
FreezeUpdateDone(p) ==
    /\ act[p].pc = "updateCard"
    /\ db' = [db EXCEPT !.card.status = "frozen"]
    /\ act' = [act EXCEPT ![p].pc = "createCase", ![p].did = @ \cup {"card.update"}]
    /\ UNCHANGED <<now, redis>>
    /\ UNCHANGED <<states, call, obs, run, triageRun, agentTrace, stream, req, log>>

\* freeze-card: prisma.case.create resolved; the response is built and its
\* caching awaited.
FreezeCaseDone(p) ==
    /\ act[p].pc = "createCase"
    /\ ActRequests[p].route = "freeze-card"
    /\ db' = [db EXCEPT !.cases =
                 Append(@, [type |-> "freeze_card", status |-> "COMPLETED",
                            payload |-> [cardId |-> ActRequests[p].cardId,
                                         requestId |-> act[p].requestId]])]
    /\ act' = [act EXCEPT ![p] =
                  [@ EXCEPT !.pc = "setEx", !.did = @ \cup {"case.create"}]
                  @@ [response |-> [status |-> "FROZEN", requestId |-> act[p].requestId,
                                    cardId |-> ActRequests[p].cardId]]]
    /\ UNCHANGED <<now, redis>>
    /\ UNCHANGED <<states, call, obs, run, triageRun, agentTrace, stream, req, log>>

\* open-dispute: prisma.transaction.findUnique resolved.
DisputeFindTxnDone(p) ==
    /\ act[p].pc = "findTxn"
    /\ IF ActRequests[p].txnId \notin db.transactions
       THEN Respond(p, ApiError("Transaction not found", 404))
       ELSE act' = [act EXCEPT ![p].pc = "findCase"]
    /\ UNCHANGED <<now, redis, db>>
    /\ UNCHANGED <<states, call, obs, run, triageRun, agentTrace, stream, req, log>>

\* open-dispute: prisma.case.findFirst resolved: is there an open dispute
\* of the transaction.
DisputeFindCaseDone(p) ==
    /\ act[p].pc = "findCase"
    /\ LET existingDispute ==
               \E k \in DOMAIN db.cases :
                   /\ db.cases[k].type = "dispute"
                   /\ db.cases[k].txnId = ActRequests[p].txnId
                   /\ db.cases[k].status \in {"OPEN", "PENDING"}
       IN IF existingDispute
          THEN Respond(p, ApiError("A dispute already exists for this transaction", 409))
          ELSE act' = [act EXCEPT ![p].pc = "createCase"]
    /\ UNCHANGED <<now, redis, db>>
    /\ UNCHANGED <<states, call, obs, run, triageRun, agentTrace, stream, req, log>>

\* open-dispute: prisma.case.create resolved; the response carries the id
\* of the case.
DisputeCaseDone(p) ==
    /\ act[p].pc = "createCase"
    /\ ActRequests[p].route = "open-dispute"
    /\ LET caseId == [case |-> Len(db.cases) + 1]
       IN /\ db' = [db EXCEPT !.cases =
                       Append(@, [type |-> "dispute", status |-> "OPEN", id |-> caseId,
                                  txnId |-> ActRequests[p].txnId])]
          /\ act' = [act EXCEPT ![p] =
                        [@ EXCEPT !.pc = "setEx", !.did = @ \cup {"case.create"}]
                        @@ [response |-> [caseId |-> caseId, status |-> "OPEN",
                                          txnId |-> ActRequests[p].txnId]]]
    /\ UNCHANGED <<now, redis>>
    /\ UNCHANGED <<states, call, obs, run, triageRun, agentTrace, stream, req, log>>

\* ingest: the upserts of the transactions resolved (Promise.all); an
\* upsert leaves a transaction that exists as it is.  The response is
\* built and its caching awaited.
IngestUpsertDone(p) ==
    /\ act[p].pc = "upsert"
    /\ db' = [db EXCEPT !.transactions =
                 @ \cup {ActRequests[p].transactions[k] :
                            k \in DOMAIN ActRequests[p].transactions}]
    /\ act' = [act EXCEPT ![p] =
                  [@ EXCEPT !.pc = "setEx", !.did = @ \cup {"transaction.upsert"}]
                  @@ [response |-> [accepted |-> TRUE,
                                    count |-> Len(ActRequests[p].transactions),
                                    requestId |-> act[p].requestId]]]
    /\ UNCHANGED <<now, redis>>
    /\ UNCHANGED <<states, call, obs, run, triageRun, agentTrace, stream, req, log>>

\* redisClient.setEx of the response resolved: the ingest response and the
\* PENDING_OTP response are returned; otherwise the alert's update is
\* awaited.
ActSetExDone(p) ==
    /\ act[p].pc = "setEx"
    /\ redis' = cacheSetEx(redis, IdemKey(p), idempotencyTtl,
                           JSONstringify(act[p].response), now)
    /\ IF ActRequests[p].route = "ingest" \/ act[p].response.status = "PENDING_OTP"
       THEN act' = [act EXCEPT ![p].pc = "done", ![p].response = Json(@)]
       ELSE act' = [act EXCEPT ![p].pc = "alert"]
    /\ UNCHANGED <<now, db>>
    /\ UNCHANGED <<states, call, obs, run, triageRun, agentTrace, stream, req, log>>

\* contact-customer up to its first await: prisma.customer.findUnique.
ContactBegin(p, message, hasAlertId) ==
    /\ act[p].pc = "idle"
    /\ ActRequests[p].route = "contact-customer"
    /\ obs < MaxActRequests
    /\ obs' = obs + 1
    /\ act' = [act EXCEPT ![p] =
                  [pc |-> "findCustomer", start |-> now, did |-> {},
                   message |-> message, hasAlertId |-> hasAlertId]]
    /\ UNCHANGED <<now, redis, db>>
    /\ UNCHANGED <<states, call, run, triageRun, agentTrace, stream, req, log>>

\* contact-customer: the customer lookup resolved; the checks of the
\* message (validateAgainstPolicy changes nothing), then prisma.case.create
\* is awaited.
ContactFindDone(p) ==
    /\ act[p].pc = "findCustomer"
    /\ IF ActRequests[p].customerId \notin db.customers
       THEN Respond(p, ApiError("Customer not found", 404))
       ELSE IF act[p].message = "blank"
       THEN Respond(p, ApiError("Message must contain at least 10 meaningful characters", 400))
       ELSE IF act[p].message = "injection"
       THEN Respond(p, ApiError("Input contains potentially malicious content", 400))
       ELSE act' = [act EXCEPT ![p].pc = "contactCase"]
    /\ UNCHANGED <<now, redis, db>>
    /\ UNCHANGED <<states, call, obs, run, triageRun, agentTrace, stream, req, log>>

\* contact-customer: prisma.case.create resolved; with an alertId the
\* alert's update is awaited, without one the open alert of the customer
\* is looked up.
ContactCaseDone(p) ==
    /\ act[p].pc = "contactCase"
    /\ LET caseId == [case |-> Len(db.cases) + 1]
       IN /\ db' = [db EXCEPT !.cases =
                       Append(@, [type |-> "contact_required", status |-> "PENDING",
                                  id |-> caseId, customerId |-> ActRequests[p].customerId])]
          /\ act' = [act EXCEPT ![p] =
                        [@ EXCEPT !.pc = IF act[p].hasAlertId THEN "alert" ELSE "findAlert",
                                  !.did = @ \cup {"case.create"}]
                        @@ [response |-> [caseId |-> caseId, status |-> "PENDING"]]]
    /\ UNCHANGED <<now, redis>>
    /\ UNCHANGED <<states, call, obs, run, triageRun, agentTrace, stream, req, log>>

\* contact-customer: prisma.alert.findFirst of the customer's open alert
\* resolved.
ContactFindAlertDone(p) ==
    /\ act[p].pc = "findAlert"
    /\ IF db.alert = "open"
       THEN act' = [act EXCEPT ![p].pc = "alert"]
       ELSE act' = [act EXCEPT ![p].pc = "done", ![p].response = Json(@)]
    /\ UNCHANGED <<now, redis, db>>
    /\ UNCHANGED <<states, call, obs, run, triageRun, agentTrace, stream, req, log>>

\* The actionType a route passes to updateAlertStatusAfterAction
routeAction(route) ==
    CASE route = "freeze-card" -> "freeze_card"
      [] route = "open-dispute" -> "open_dispute"
      [] route = "contact-customer" -> "contact_customer"

\* updateAlertStatusAfterAction(alertId, ...) resolved, and res.json.
ActAlertDone(p) ==
    /\ act[p].pc = "alert"
    /\ db' = [db EXCEPT !.alert = alertStatusAfter(routeAction(ActRequests[p].route))]
    /\ act' = [act EXCEPT ![p].pc = "done", ![p].response = Json(@)]
    /\ UNCHANGED <<now, redis>>
    /\ UNCHANGED <<states, call, obs, run, triageRun, agentTrace, stream, req, log>>

\* POST /mark-false-positive up to its await: the body is validated (it
\* names the alert) and prisma.alert.update is sent.
MarkFalsePositive(p) ==
    /\ act[p].pc = "idle"
    /\ ActRequests[p].route = "mark-false-positive"
    /\ obs < MaxActRequests
    /\ obs' = obs + 1
    /\ act' = [act EXCEPT ![p] = [pc |-> "markUpdate", start |-> now, did |-> {}]]
    /\ UNCHANGED <<now, redis, db>>
    /\ UNCHANGED <<states, call, run, triageRun, agentTrace, stream, req, log>>

\* mark-false-positive: prisma.alert.update resolved, and res.json.
MarkFalsePositiveDone(p) ==
    /\ act[p].pc = "markUpdate"
    /\ db' = [db EXCEPT !.alert = "false_positive"]
    /\ act' = [act EXCEPT ![p] =
                  [@ EXCEPT !.pc = "done", !.did = @ \cup {"alert.update"}]
                  @@ [response |-> Json([success |-> TRUE])]]
    /\ UNCHANGED <<now, redis>>
    /\ UNCHANGED <<states, call, obs, run, triageRun, agentTrace, stream, req, log>>

\* The answer of the two alert routes of the triage router to a body
\* without alertId or actionType
MissingAlertOrAction == ApiError("Missing alertId or actionType", 400)

\* POST /api/triage/execute-action up to its first await: the check of the
\* body, then Orchestrator.executeActionAndUpdateAlert sends
\* prisma.alert.findUnique.
ExecuteAction(p, hasAlertId, actionType, actionParams) ==
    /\ act[p].pc = "idle"
    /\ ActRequests[p].route = "execute-action"
    /\ obs < MaxActRequests
    /\ obs' = obs + 1
    /\ IF ~hasAlertId \/ actionType = ""
       THEN act' = [act EXCEPT ![p] =
                       [pc |-> "done", start |-> now, did |-> {},
                        response |-> MissingAlertOrAction]]
       ELSE act' = [act EXCEPT ![p] =
                       [pc |-> "execFind", start |-> now, did |-> {},
                        actionType |-> actionType, actionParams |-> actionParams]]
    /\ UNCHANGED <<now, redis, db>>
    /\ UNCHANGED <<states, call, run, triageRun, agentTrace, stream, req, log>>

\* execute-action: the alert's lookup resolved (the alert exists; nothing
\* else of what was read is used); newStatus is chosen, actionResult is
\* built with the time of this instant, and prisma.alert.update is sent.
ExecuteFindDone(p) ==
    /\ act[p].pc = "execFind"
    /\ act' = [act EXCEPT ![p] =
                  [@ EXCEPT !.pc = "execUpdate"]
                  @@ [newStatus |-> alertStatusAfter(act[p].actionType),
                      actionResult |->
                          IF act[p].actionParams = Undefined
                          THEN [actionType |-> act[p].actionType, timestamp |-> now]
                          ELSE [actionType |-> act[p].actionType,
                                params |-> act[p].actionParams, timestamp |-> now]]]
    /\ UNCHANGED <<now, redis, db>>
    /\ UNCHANGED <<states, call, obs, run, triageRun, agentTrace, stream, req, log>>

\* execute-action: prisma.alert.update resolved, and res.json.
ExecuteUpdateDone(p) ==
    /\ act[p].pc = "execUpdate"
    /\ db' = [db EXCEPT !.alert = act[p].newStatus]
    /\ act' = [act EXCEPT ![p] =
                  [@ EXCEPT !.pc = "done", !.did = @ \cup {"alert.update"}]
                  @@ [response |-> Json([success |-> TRUE,
                                         alertId |-> ActRequests[p].alertId,
                                         actionType |-> act[p].actionType,
                                         alertStatus |-> act[p].newStatus,
                                         actionResult |-> act[p].actionResult])]]
    /\ UNCHANGED <<now, redis>>
    /\ UNCHANGED <<states, call, obs, run, triageRun, agentTrace, stream, req, log>>

\* POST /api/triage/update-alert-status up to its await: the check of the
\* body, then updateAlertStatusAfterAction chooses newStatus and sends
\* prisma.alert.update.
UpdateAlertStatus(p, hasAlertId, actionType) ==
    /\ act[p].pc = "idle"
    /\ ActRequests[p].route = "update-alert-status"
    /\ obs < MaxActRequests
    /\ obs' = obs + 1
    /\ IF ~hasAlertId \/ actionType = ""
       THEN act' = [act EXCEPT ![p] =
                       [pc |-> "done", start |-> now, did |-> {},
                        response |-> MissingAlertOrAction]]
       ELSE act' = [act EXCEPT ![p] =
                       [pc |-> "statusUpdate", start |-> now, did |-> {},
                        actionType |-> actionType,
                        newStatus |-> alertStatusAfter(actionType)]]
    /\ UNCHANGED <<now, redis, db>>
    /\ UNCHANGED <<states, call, run, triageRun, agentTrace, stream, req, log>>

\* update-alert-status: prisma.alert.update resolved, and res.json.
UpdateAlertStatusDone(p) ==
    /\ act[p].pc = "statusUpdate"
    /\ db' = [db EXCEPT !.alert = act[p].newStatus]
    /\ act' = [act EXCEPT ![p] =
                  [@ EXCEPT !.pc = "done", !.did = @ \cup {"alert.update"}]
                  @@ [response |-> Json([success |-> TRUE,
                                         alertId |-> ActRequests[p].alertId,
                                         actionType |-> act[p].actionType])]]
    /\ UNCHANGED <<now, redis>>
    /\ UNCHANGED <<states, call, obs, run, triageRun, agentTrace, stream, req, log>>

\* Time passes, between requests or while requests wait for a call to
\* settle.
ActTick(T) ==
    /\ T > now
    /\ now' = T
    /\ UNCHANGED <<redis, db, act>>
    /\ UNCHANGED <<states, call, obs, run, triageRun, agentTrace, stream, req, log>>

InitAct ==
    /\ now = 0
    /\ states = <<>>
    /\ call = <<>>
    /\ obs = 0
    /\ run = <<>>
    /\ triageRun = <<>>
    /\ agentTrace = <<>>
    /\ stream = <<>>
    /\ req = <<>>
    /\ log = <<>>
    /\ redis = [up |-> TRUE, data |-> [k \in IdemKeys |-> Null]]
    /\ \E kyc \in KycLevels :
          db = [card |-> [status |-> "active", kycLevel |-> kyc],
                customers |-> {"cust_1"},
                transactions |-> {"txn_1"}, cases |-> <<>>, alert |-> "open"]
    /\ act = [p \in ActProcs |-> IdleAct]

NextAct ==
    \/ \E p \in ActProcs, otp \in Otps : ActBegin(p, otp)
    \/ \E p \in ActProcs : ActGetDone(p)
    \/ \E p \in ActProcs : FreezeFindDone(p)
    \/ \E p \in ActProcs : FreezeUpdateDone(p)
    \/ \E p \in ActProcs : FreezeCaseDone(p)
    \/ \E p \in ActProcs : DisputeFindTxnDone(p)
    \/ \E p \in ActProcs : DisputeFindCaseDone(p)
    \/ \E p \in ActProcs : DisputeCaseDone(p)
    \/ \E p \in ActProcs : IngestUpsertDone(p)
    \/ \E p \in ActProcs : ActSetExDone(p)
    \/ \E p \in ActProcs, message \in Messages, hasAlertId \in BOOLEAN :
          ContactBegin(p, message, hasAlertId)
    \/ \E p \in ActProcs : ContactFindDone(p)
    \/ \E p \in ActProcs : ContactCaseDone(p)
    \/ \E p \in ActProcs : ContactFindAlertDone(p)
    \/ \E p \in ActProcs : ActAlertDone(p)
    \/ \E p \in ActProcs : MarkFalsePositive(p)
    \/ \E p \in ActProcs : MarkFalsePositiveDone(p)
    \/ \E p \in ActProcs, hasAlertId \in BOOLEAN, actionType \in BodyActionTypes,
          actionParams \in ActionParams :
          ExecuteAction(p, hasAlertId, actionType, actionParams)
    \/ \E p \in ActProcs : ExecuteFindDone(p)
    \/ \E p \in ActProcs : ExecuteUpdateDone(p)
    \/ \E p \in ActProcs, hasAlertId \in BOOLEAN, actionType \in BodyActionTypes :
          UpdateAlertStatus(p, hasAlertId, actionType)
    \/ \E p \in ActProcs : UpdateAlertStatusDone(p)
    \/ \E T \in ActInstants : ActTick(T)

SpecAct == InitAct /\ [][NextAct]_vars

\* C27: two requests to the same action route carrying the same
\* Idempotency-Key and begun within the key's window of one hour perform no
\* side effect (card update, case creation) twice, and when both have been
\* answered with a result the duplicate's response is the first's.
SameKey(p, q) ==
    /\ p # q
    /\ ActRequests[p].route = ActRequests[q].route
    /\ ActRequests[p].key = ActRequests[q].key
    /\ act[p].pc # "idle" /\ act[q].pc # "idle"
    /\ act[q].start - act[p].start < idempotencyTtl * 1000
    /\ act[p].start - act[q].start < idempotencyTtl * 1000
Answered(p) == act[p].pc = "done" /\ act[p].response.code = 200

C27_IdempotentActions ==
    \A p, q \in ActProcs :
        SameKey(p, q) =>
            /\ Did(p) \cap Did(q) = {}
            /\ (Answered(p) /\ Answered(q)) => act[p].response = act[q].response

(***************************************************************************)
(* Claims about a triage run (Spec)                                        *)
(***************************************************************************)
Range(s) == {s[k] : k \in DOMAIN s}
Resolved(r) == run[r].pc = "closed" /\ run[r].outcome = "resolved"

\* The tool of the step was executed and its ToolResult was not ok: the
\* first AgentStep recorded for the step is a failed one.
ToolFailed(r, step) ==
    \E k \in DOMAIN run[r].steps :
        /\ run[r].steps[k].step = step
        /\ ~run[r].steps[k].ok
        /\ \A j \in 1..(k - 1) : run[r].steps[j].step # step

\* An event of the stream, by type (and step and status for tool_update).
EventKind(e) ==
    IF e.type = "tool_update" THEN <<e.type, e.step, e.status>> ELSE <<e.type>>
EventKinds(r) == [k \in DOMAIN stream[r] |-> EventKind(stream[r][k])]

\* plan_built, running and completed for every step of the plan in order,
\* decision_finalized, completed.
HappyPathEvents ==
    <<<<"plan_built">>>>
    \o [k \in 1..(2 * Len(defaultPlan)) |->
           <<"tool_update", defaultPlan[(k + 1) \div 2],
             IF k % 2 = 1 THEN "running" ELSE "completed">>]
    \o <<<<"decision_finalized">>, <<"completed">>>>

\* The tool of the step was executed and its ToolResult was ok.
ToolSucceeded(r, step) ==
    /\ \E k \in DOMAIN run[r].steps : run[r].steps[k].step = step
    /\ ~ToolFailed(r, step)

\* A stream of an existing alert whose run went through the default plan
\* within the budget, every tool of the plan succeeding, and returned its
\* decision to a client that stayed connected.
HappyRun(r) ==
    /\ Resolved(r)
    /\ run[r].callback
    /\ run[r].connected
    /\ run[r].alert.exists
    /\ run[r].plan = defaultPlan
    /\ \A k \in DOMAIN defaultPlan : ToolSucceeded(r, defaultPlan[k])

\* The events streamed for the run: those that follow the connected event
\* with which the route opens the stream.
RunEvents(r) == SubSeq(EventKinds(r), 2, Len(stream[r]))

\* C1: when the alert exists and every tool of the default plan succeeds
\* within the flow budget, the events streamed for the run are exactly
\* plan_built, the running/completed pair of each of the 5 steps in plan
\* order, decision_finalized, completed, and the run has exactly 5 trace
\* rows.
C1_HappyPath ==
    \A r \in Runs :
        HappyRun(r) => RunEvents(r) = HappyPathEvents /\ Len(agentTrace[r]) = 5

\* C2: when the riskSignals tool fails in a run, the finalized run has
\* fallbackUsed = true, risk = medium, the fallback reason among its
\* reasons, and a recommendedAction of the action schema; the run row
\* carries the same risk, reasons and fallbackUsed.
C2_RiskFallback ==
    \A r \in Runs :
        (Resolved(r) /\ ToolFailed(r, "riskSignals")) =>
            /\ run[r].fallbackUsed
            /\ run[r].risk = "medium"
            /\ Reason("Risk assessment unavailable (fallback)") \in Range(run[r].reasons)
            /\ run[r].recommendedAction \in actionSchema
            /\ triageRun[r].ended
            /\ triageRun[r].fallbackUsed
            /\ triageRun[r].risk = "medium"
            /\ triageRun[r].reasons = run[r].reasons

C2_Witness ==
    \E r \in Runs :
        /\ Resolved(r)
        /\ ToolFailed(r, "riskSignals")
        /\ \E k \in DOMAIN agentTrace[r] :
              agentTrace[r][k].step = "riskSignals" /\ ~agentTrace[r][k].ok
        /\ run[r].alert.chargebacks > 0

\* C10: a finalized run has as many persisted trace rows as steps it
\* attempted, and no more than the plan has steps.
C10_TracePerAttempt ==
    \A r \in Runs :
        Resolved(r) =>
            /\ Len(agentTrace[r]) = run[r].attempted
            /\ Len(agentTrace[r]) <= Len(run[r].plan)

\* A run that got past the alert lookup's start (it has the locals of
\* executeTriage), and one that has made its final decision.
Started(r) == "steps" \in DOMAIN run[r]
Finalized(r) == Started(r) /\ "latencyMs" \in DOMAIN run[r]
Attempted(L) == IF "attempted" \in DOMAIN L THEN L.attempted ELSE 0

\* The final decision was made with plan steps left: the budget check
\* ended the loop at step i.
BudgetStopped(r) == Finalized(r) /\ run[r].i <= Len(run[r].plan)
SkippedSteps(r) == {run[r].plan[k] : k \in run[r].i..Len(run[r].plan)}
StepNames(seq) == {seq[k].step : k \in DOMAIN seq}
EventSteps(r) ==
    {stream[r][k].step : k \in {j \in DOMAIN stream[r] : "step" \in DOMAIN stream[r][j]}}
RegisteredBefore(plan, i) == {k \in 1..(i - 1) : plan[k] \in DOMAIN tools}

\* The risk the steps that ran computed: the riskSignals tool's when it
\* succeeded, medium otherwise.
RiskComputed(r) ==
    IF \E k \in DOMAIN run[r].steps : run[r].steps[k].step = "riskSignals" /\ run[r].steps[k].ok
    THEN LET k == CHOOSE k \in DOMAIN run[r].steps :
                      run[r].steps[k].step = "riskSignals" /\ run[r].steps[k].ok
         IN run[r].steps[k].detail.risk
    ELSE "medium"

\* The stream of a run that returned, as a connected client sees it, ends
\* with decision_finalized, completed and holds no error event.
EndsWithDecision(r) ==
    LET n == Len(stream[r]) IN
    /\ n >= 2
    /\ stream[r][n - 1].type = "decision_finalized"
    /\ stream[r][n].type = "completed"
    /\ \A k \in DOMAIN stream[r] : stream[r][k].type # "error"

\* C11: a step starts only when at most 5000 ms have elapsed since the run
\* started; when more have elapsed the loop ends: the step and the later
\* plan steps have no tool invocation, no event, no AgentStep and no trace
\* row; the stop sets no fallback flag and raises no error; and the run
\* finalizes (run row, decision_finalized, completed) with the risk the
\* steps that ran computed.
C11_BudgetSkip ==
    /\ [](\A r \in Runs :
            BudgetStopped(r) =>
                /\ run[r].latencyMs > flowBudget
                /\ SkippedSteps(r) \cap StepNames(run[r].steps) = {}
                /\ SkippedSteps(r) \cap StepNames(agentTrace[r]) = {}
                /\ SkippedSteps(r) \cap EventSteps(r) = {}
                /\ run[r].attempted = Cardinality(RegisteredBefore(run[r].plan, run[r].i))
                /\ run[r].fallbackUsed <=>
                      \E k \in DOMAIN run[r].steps : ~run[r].steps[k].ok
                /\ run[r].cause \in {"none", "run not updated"}
                /\ run[r].risk = RiskComputed(r)
                /\ Resolved(r) =>
                      /\ triageRun[r].ended
                      /\ triageRun[r].risk = run[r].risk
                      /\ (run[r].callback /\ run[r].connected) => EndsWithDecision(r))
    /\ [][\A r \in Runs :
            (Started(r) /\ Attempted(run'[r]) > Attempted(run[r]))
            => now' - run'[r].startTime <= flowBudget]_vars

\* A streamed run stopped by the budget before its last steps returned the
\* high risk that its riskSignals step had computed.
C11_Witness ==
    \E r \in Runs :
        /\ Resolved(r)
        /\ BudgetStopped(r)
        /\ run[r].callback /\ run[r].connected
        /\ run[r].attempted >= 2
        /\ run[r].risk = "high"

\* The two outcomes of a stream: the decision_finalized, completed pair at
\* its end and no error event; or an error event at its end and neither
\* decision_finalized nor completed.
HasEvent(r, type) == \E k \in DOMAIN stream[r] : stream[r][k].type = type
EndsWithError(r) ==
    /\ Len(stream[r]) >= 1
    /\ stream[r][Len(stream[r])].type = "error"
    /\ ~HasEvent(r, "decision_finalized")
    /\ ~HasEvent(r, "completed")

\* C12: whatever the tools do, a stream that was opened is ended by the
\* server (it never stalls); when it is ended, a client that stayed
\* connected has received exactly one of the two outcomes as the last thing
\* on the stream; and no stream ever holds both an error event and a
\* decision_finalized or completed event.
C12_DefiniteOutcome ==
    /\ \A r \in Runs : (run[r].pc # "idle") ~> (run[r].pc = "closed")
    /\ [](\A r \in Runs :
            /\ (run[r].pc = "closed" /\ run[r].callback /\ run[r].connected)
               => (EndsWithDecision(r) \/ EndsWithError(r))
            /\ ~(EndsWithDecision(r) /\ EndsWithError(r))
            /\ HasEvent(r, "error")
               => ~HasEvent(r, "decision_finalized") /\ ~HasEvent(r, "completed"))

\* A stream ended with the decision pair although every tool of the default
\* plan that ran had failed.
C12_Witness ==
    \E r \in Runs :
        /\ Resolved(r)
        /\ run[r].callback /\ run[r].connected
        /\ run[r].plan = defaultPlan
        /\ EndsWithDecision(r)
        /\ Len(run[r].steps) >= 2
        /\ \A k \in DOMAIN run[r].steps : ~run[r].steps[k].ok

\* A streamed run whose client has closed the connection.
Disconnected(r) == Started(r) /\ run[r].callback /\ ~run[r].connected

\* The step of run r ends the processing of a plan step (or creates the run
\* row) without rejecting, and leaves a registered plan step within budget:
\* that step is started in the same step (its tool is executed).
AtStepEnd(r) ==
    /\ Started(r)
    /\ run[r].pc \in {"createRun", "saveTrace"}
    /\ run'[r].pc # run[r].pc \/ run'[r].i # run[r].i
    /\ run'[r].outcome # "rejected"
NextIndex(r) ==
    NextRegistered(run[r].plan, IF run[r].pc = "createRun" THEN 1 ELSE run[r].i + 1)
StartsNextStep(r) ==
    (NextIndex(r) <= Len(run[r].plan) /\ now' - run[r].startTime <= flowBudget)
    => /\ run'[r].i = NextIndex(r)
       /\ run'[r].attempted = run[r].attempted + 1
       /\ run'[r].pc \in {"tool", "saveTrace"}

\* C13: the client's disconnection changes nothing of the run but the
\* connection; afterwards no event is delivered, and the run goes on as it
\* would have: every remaining registered plan step within the budget has
\* its tool executed, a run that returns has its run row finalized and a
\* trace row for every step attempted whose trace write the database
\* accepted, and the run ends early only for the budget.
C13_DisconnectKeepsRun ==
    /\ [][\A r \in Runs :
            (Started(r) /\ run[r].callback /\ run[r].connected
               /\ Started(r)' /\ ~run'[r].connected)
            => /\ run'[r] = [run[r] EXCEPT !.connected = FALSE]
               /\ UNCHANGED <<now, states, triageRun, agentTrace, stream>>]_vars
    /\ [][\A r \in Runs :
            Disconnected(r) =>
                /\ stream'[r] = stream[r]
                /\ AtStepEnd(r) => StartsNextStep(r)
                /\ run'[r].outcome = "rejected"
                   => run'[r].cause \in {"Alert not found", "run not created",
                                         "run not updated"}]_vars
    /\ [](\A r \in Runs :
            (Disconnected(r) /\ Resolved(r)) =>
                /\ triageRun[r].ended
                /\ run[r].i > Len(run[r].plan) \/ run[r].latencyMs > flowBudget
                /\ run[r].attempted = Cardinality(RegisteredBefore(run[r].plan, run[r].i))
                /\ Len(agentTrace[r]) = run[r].attempted - run[r].traceFaults)

\* The client left after the connected event; the run of the default plan
\* went through its five steps, saved five trace rows and finalized its run
\* row; nothing more reached the client.
C13_Witness ==
    \E r \in Runs :
        /\ Disconnected(r)
        /\ Resolved(r)
        /\ run[r].plan = defaultPlan
        /\ run[r].attempted = 5
        /\ Len(agentTrace[r]) = 5
        /\ triageRun[r].ended
        /\ Len(stream[r]) = 1

\* A run whose alert the database does not have.
NoAlert(r) == Started(r) /\ ~run[r].alert.exists

\* C14: a run whose alert does not exist ends when the lookup settles,
\* rejected with 'Alert not found': the lookup is not repeated, no run row
\* and no trace row is written, no tool is executed (the breaker is as the
\* run found it), no plan_built or other progress event is emitted, and the
\* stream of a connected client is exactly connected, error.
C14_NotFound ==
    /\ [][\A r \in Runs :
            (NoAlert(r) /\ run'[r] # run[r] /\ run'[r].connected = run[r].connected)
            => /\ run[r].pc = "findAlert"
               /\ run'[r].pc = "closed"
               /\ run'[r].outcome = "rejected"
               /\ run'[r].cause = "Alert not found"]_vars
    /\ [](\A r \in Runs :
            NoAlert(r) =>
                /\ triageRun[r] = Null
                /\ agentTrace[r] = <<>>
                /\ run[r].attempted = 0
                /\ run[r].steps = <<>>
                /\ states \in BreakerSamples
                /\ \A k \in DOMAIN stream[r] : stream[r][k].type \in {"connected", "error"}
                /\ (run[r].pc = "closed" /\ run[r].callback /\ run[r].connected)
                   => stream[r] = <<EvConnected(ParamRunId(r)), EvError(Msg("Alert not found"))>>)

C14_Witness ==
    \E r \in Runs :
        /\ NoAlert(r)
        /\ run[r].pc = "closed"
        /\ run[r].callback /\ run[r].connected
        /\ Len(stream[r]) = 2
        /\ now > run[r].startTime

\* The run has gone past the creation of its row: an event other than
\* connected and error was emitted, a step was attempted or recorded, or a
\* trace row exists.
PastCreation(r) ==
    \/ \E k \in DOMAIN stream[r] : stream[r][k].type \notin {"connected", "error"}
    \/ Started(r) /\ (run[r].attempted > 0 \/ run[r].steps # <<>>)
    \/ agentTrace[r] # <<>>
    \/ run[r].pc \in {"tool", "saveTrace", "updateRun"}

\* C15: the run row is persisted before plan_built is emitted and before
\* any step's tool is invoked: the row appears in a step from a state where
\* nothing of the plan has happened, it stays, and a run that has emitted
\* plan_built, invoked a tool or persisted a trace row has its row.
C15_RunRowFirst ==
    /\ [][\A r \in Runs :
            /\ (triageRun[r] = Null /\ triageRun'[r] # Null)
               => /\ run[r].pc = "createRun" /\ ~PastCreation(r)
                  /\ triageRun'[r].id = RunId(r)
            /\ triageRun[r] # Null => triageRun'[r] # Null]_vars
    /\ [](\A r \in Runs : PastCreation(r) => triageRun[r] # Null)

C15_Witness ==
    \E r \in Runs :
        /\ triageRun[r] # Null
        /\ run[r].pc = "tool" /\ run[r].attempted = 1
        /\ agentTrace[r] = <<>>
        /\ run[r].callback /\ run[r].connected
        /\ [k \in DOMAIN stream[r] |-> stream[r][k].type]
               = <<"connected", "plan_built", "tool_update">>

\* The step whose processing ends in this step of the run failed: its
\* ToolResult has ok = false, or the creation of its trace row raised.
StepFails(r) ==
    /\ Started(r)
    /\ run[r].pc = "saveTrace"
    /\ run'[r].pc # run[r].pc \/ run'[r].i # run[r].i \/ run'[r].outcome # run[r].outcome
    /\ ~run[r].result.ok \/ run'[r].traceFaults > run[r].traceFaults

\* C16: a step's failure does not end the run.  When the processing of a
\* failed step ends, executeTriage does not reject, and the next registered
\* step of the plan is started unless the budget is exhausted at that
\* point; with no step left or the budget exhausted, the run goes on to
\* its final decision.
C16_FailureGoesOn ==
    [][\A r \in Runs :
          StepFails(r) =>
              /\ run'[r].outcome = "pending"
              /\ StartsNextStep(r)
              /\ run'[r].pc \in {"tool", "saveTrace", "updateRun"}
              /\ run'[r].pc = "updateRun"
                 <=> (NextIndex(r) > Len(run[r].plan)
                        \/ now' - run[r].startTime > flowBudget)]_vars

\* A failed first step and a raised trace write, each followed by a step.
C16_Witness ==
    \E r \in Runs :
        /\ Started(r)
        /\ run[r].pc = "tool"
        /\ run[r].i = 3
        /\ Len(run[r].steps) = 3
        /\ ~run[r].steps[1].ok
        /\ run[r].traceFaults = 1

\* C17: an exception raised while a step is processed is recorded as
\* exactly one failed AgentStep, so the step list holds at most one
\* AgentStep per plan step (and so no more AgentSteps than attempted
\* steps); fallbackUsed is set; executeTriage does not reject because of it.
C17_OneFailedStep ==
    \A r \in Runs :
        Started(r) =>
            /\ \A j, k \in DOMAIN run[r].steps :
                   run[r].steps[j].step = run[r].steps[k].step => j = k
            /\ Len(run[r].steps) <= run[r].attempted
            /\ run[r].traceFaults > 0
               => /\ run[r].fallbackUsed
                  /\ run[r].outcome = "rejected"
                     => run[r].cause \in {"run not created", "run not updated"}

\* The steps of the run's plan that have no tool, and those that have.
Unregistered(r) == {run[r].plan[k] : k \in DOMAIN run[r].plan} \ DOMAIN tools
Registered(r) == {run[r].plan[k] : k \in DOMAIN run[r].plan} \cap DOMAIN tools

\* C18: a plan step with no registered tool is skipped.  It is never the
\* step of an awaited tool or trace write, of an event, of an AgentStep or
\* of a trace row; it is not counted as attempted; fallbackUsed is set only
\* when a recorded step failed; and a run that made its final decision
\* within the budget has recorded every registered step of its plan, the
\* ones after the unregistered step included.
C18_UnregisteredSkipped ==
    \A r \in Runs :
        Started(r) =>
            /\ run[r].pc \in {"tool", "saveTrace"} => run[r].plan[run[r].i] \in DOMAIN tools
            /\ EventSteps(r) \cap Unregistered(r) = {}
            /\ StepNames(run[r].steps) \cap Unregistered(r) = {}
            /\ StepNames(agentTrace[r]) \cap Unregistered(r) = {}
            /\ run[r].attempted <= Cardinality(Registered(r))
            /\ run[r].fallbackUsed
               => \E k \in DOMAIN run[r].steps : ~run[r].steps[k].ok
            /\ (Finalized(r) /\ run[r].latencyMs <= flowBudget)
               => /\ StepNames(run[r].steps) = Registered(r)
                  /\ run[r].attempted = Cardinality(Registered(r))

C18_Witness ==
    \E r \in Runs :
        /\ Resolved(r)
        /\ Unregistered(r) = {"notifyCustomer"}
        /\ [k \in DOMAIN run[r].steps |-> run[r].steps[k].step]
               = <<"riskSignals", "proposeAction">>
        /\ ~run[r].fallbackUsed
        /\ Len(agentTrace[r]) = 2
        /\ run[r].callback /\ run[r].connected
        /\ Len(stream[r]) = 8

\* The run ids the events of a run's stream carry.
StreamRunIds(r) ==
    {stream[r][k].runId : k \in {j \in DOMAIN stream[r] : "runId" \in DOMAIN stream[r][j]}}

\* C25: the run id handed to the client identifies the run: the run row and
\* the trace rows of a run started by POST are stored under the id the
\* response returned, and the events of a stream all carry the id of the
\* run's row.
C25_HandedRunId ==
    \A r \in Runs :
        Started(r) =>
            /\ ("handed" \in DOMAIN run[r] /\ triageRun[r] # Null)
               => /\ triageRun[r].id = run[r].handed
                  /\ \A k \in DOMAIN agentTrace[r] : agentTrace[r][k].runId = run[r].handed
            /\ (run[r].callback /\ triageRun[r] # Null)
               => StreamRunIds(r) = {triageRun[r].id}

\* C26: the flow budget bounds the wall-clock time of an entire run: the
\* latencyMs of every finalized run is at most flowBudget.
C26_LatencyWithinBudget ==
    \A r \in Runs : Finalized(r) => run[r].latencyMs <= flowBudget

\* The results of the steps of the given name that succeeded, as recorded.
Succeeded(r, step) ==
    {run[r].steps[k].detail :
        k \in {j \in DOMAIN run[r].steps : run[r].steps[j].step = step /\ run[r].steps[j].ok}}

\* The fallback branch of the risk step ran: the step's failed ToolResult
\* has its trace row.
RiskFellBack(r) ==
    \E k \in DOMAIN agentTrace[r] :
        agentTrace[r][k].step = "riskSignals" /\ ~agentTrace[r][k].ok

\* C28: the recommended action of a finalized run is the action of the
\* proposal step when that step ran and succeeded; otherwise the action the
\* risk step's own result carries when that step succeeded, or the fallback
\* assessment's (freeze_card) when the step failed and its fallback was
\* taken; and 'contact_customer' only when there is neither.
C28_RecommendedAction ==
    \A r \in Runs :
        Finalized(r) =>
            LET proposals == Succeeded(r, "proposeAction")
                risks == Succeeded(r, "riskSignals")
            IN IF proposals # {}
               THEN \A d \in proposals : run[r].recommendedAction = d.action
               ELSE IF risks # {}
               THEN \A d \in risks : run[r].recommendedAction = d.action
               ELSE IF RiskFellBack(r)
               THEN run[r].recommendedAction = "freeze_card"
               ELSE run[r].recommendedAction = "contact_customer"

\* A finalized run whose risk step failed, with the fallback taken, and
\* whose proposal step succeeded with another action than the fallback
\* assessment's.
C28_Witness ==
    \E r \in Runs :
        /\ Finalized(r)
        /\ RiskFellBack(r)
        /\ Succeeded(r, "riskSignals") = {}
        /\ \E d \in Succeeded(r, "proposeAction") :
               /\ d.action # "freeze_card"
               /\ run[r].recommendedAction = d.action

\* The progress events executeTriage has emitted to a stream, in order (the
\* route's own connected, error and completed events left out).
IsProgress(e) ==
    e.type \in {"plan_built", "tool_update", "fallback_triggered", "decision_finalized"}
Progress(r) == SelectSeq(stream[r], IsProgress)
IsRunning(e) == e.type = "tool_update" /\ e.status = "running"
IsStepEnd(e) == (e.type = "tool_update" /\ e.status = "completed") \/ e.type = "fallback_triggered"
TraceOk(r, step) ==
    {agentTrace[r][k].ok : k \in {j \in DOMAIN agentTrace[r] : agentTrace[r][j].step = step}}

\* C31: on a stream whose client stays connected the progress events follow
\* a fixed order: plan_built once and first; the running event of a step is
\* followed, before any other event, by the step's completed event (when
\* its ToolResult is ok) or its fallback_triggered event (when it is not),
\* and these follow nothing but their step's running event; the
\* decision_finalized event comes once, after all step events.
C31_EventOrder ==
    \A r \in Runs :
        (Started(r) /\ run[r].callback /\ run[r].connected) =>
            LET evs == Progress(r)
                n == Len(evs)
            IN /\ \A k \in 1..n : evs[k].type = "plan_built" <=> k = 1
               /\ \A k \in 1..n :
                     (IsRunning(evs[k]) /\ k < n)
                     => /\ IsStepEnd(evs[k + 1])
                        /\ evs[k + 1].step = evs[k].step
                        /\ TraceOk(r, evs[k].step) = {evs[k + 1].type = "tool_update"}
               /\ \A k \in 1..n :
                     IsStepEnd(evs[k])
                     => k > 1 /\ IsRunning(evs[k - 1]) /\ evs[k - 1].step = evs[k].step
               /\ \A k \in 1..n : evs[k].type = "decision_finalized" => k = n
               /\ Resolved(r) => n > 0 /\ evs[n].type = "decision_finalized"

\* The place of a step in the plan of a run.
PlanIndex(r, step) == CHOOSE j \in DOMAIN run[r].plan : run[r].plan[j] = step

\* C32: the trace row of a step is persisted before the step's completed or
\* fallback_triggered event is emitted and before the next step's tool is
\* invoked, and the persisted rows of a run carry the seq numbers 1, 2, ...,
\* n in plan order.
C32_TraceBeforeEvent ==
    \A r \in Runs :
        Started(r) =>
            /\ \A k \in DOMAIN stream[r] :
                  (IsProgress(stream[r][k]) /\ IsStepEnd(stream[r][k]))
                  => TraceOk(r, stream[r][k].step) # {}
            /\ run[r].pc \in {"tool", "saveTrace"}
               => Len(agentTrace[r]) = run[r].attempted - 1
            /\ \A k \in DOMAIN agentTrace[r] : agentTrace[r][k].seq = k
            /\ \A j, k \in DOMAIN agentTrace[r] :
                  j < k => PlanIndex(r, agentTrace[r][j].step) < PlanIndex(r, agentTrace[r][k].step)

\* C33: a run whose run row was created eventually finalizes, whatever its
\* tools do (succeed, throw, hang, meet an open circuit), while the
\* database stays available: the row is updated with endedAt, risk,
\* reasons, fallbackUsed and latencyMs, and executeTriage returns the
\* decision.
FinalRow(r) ==
    /\ triageRun[r] # Null
    /\ triageRun[r].ended
    /\ {"risk", "reasons", "fallbackUsed", "latencyMs"} \subseteq DOMAIN triageRun[r]
C33_EventuallyFinalized ==
    \A r \in Runs : (triageRun[r] # Null) ~> (Resolved(r) /\ FinalRow(r))

\* A run finalized although one of its tools timed out at every attempt and
\* another was rejected by its open circuit.
C33_Witness ==
    \E r \in Runs :
        /\ Resolved(r) /\ FinalRow(r)
        /\ \E k \in DOMAIN run[r].steps :
              run[r].steps[k].detail = [error |-> TimeoutError.message]
        /\ \E k \in DOMAIN run[r].steps :
              run[r].steps[k].detail = [error |-> CircuitOpenError("FraudAgent").message]

\* C34: the fallbackUsed flag of a finalized run is true exactly when a
\* step recorded in its step list has ok = false; the run row saved at the
\* end carries the same flag.
FailedSteps(r) == {k \in DOMAIN run[r].steps : ~run[r].steps[k].ok}
C34_FallbackFlag ==
    \A r \in Runs :
        Finalized(r) =>
            /\ run[r].fallbackUsed <=> FailedSteps(r) # {}
            /\ (triageRun[r] # Null /\ triageRun[r].ended)
               => (triageRun[r].fallbackUsed <=> FailedSteps(r) # {})

\* A finalized run whose tools all succeeded and whose only failed step is
\* the one the catch block recorded for a trace row that was not saved; and
\* the flag is saved with the run row.
C34_Witness ==
    \E r \in Runs :
        /\ Resolved(r)
        /\ run[r].fallbackUsed /\ triageRun[r].fallbackUsed
        /\ run[r].traceFaults = 1
        /\ Cardinality(FailedSteps(r)) = 1
        /\ Len(agentTrace[r]) >= 1
        /\ \A k \in DOMAIN agentTrace[r] : agentTrace[r][k].ok

\* C35: an AgentStep is immutable once it is in the step list of a run: no
\* later step of the run changes its fields or its detail, the assembly of
\* the final reasons included.
C35_StepsImmutable ==
    [][\A r \in Runs :
          (Started(r) /\ Started(r)')
          => \A k \in DOMAIN run[r].steps :
                 /\ k \in DOMAIN run'[r].steps
                 /\ run'[r].steps[k] = run[r].steps[k]]_vars

\* The executions of one client triage that have run the tool of a step.
RanStep(step) ==
    {r \in ClientRuns :
        "steps" \in DOMAIN run[r]
        /\ \E k \in DOMAIN run[r].steps : run[r].steps[k].step = step}

\* C36: one client triage of an alert, the start request followed by the
\* stream of the returned run id, executes the plan once: at most one run
\* row is created for the alert and the tool of each plan step is invoked
\* in at most one run.
C36_OneExecution ==
    /\ Cardinality({r \in ClientRuns : triageRun[r] # Null}) <= 1
    /\ \A k \in DOMAIN defaultPlan : Cardinality(RanStep(defaultPlan[k])) <= 1

\* The verdict of a finalized run is the fallback's: medium risk, reasons
\* starting with the fallback reason.
FallbackVerdict(r) ==
    /\ Finalized(r)
    /\ run[r].risk = "medium"
    /\ Len(run[r].reasons) >= 1
    /\ run[r].reasons[1] = Reason("Risk assessment unavailable (fallback)")

\* C39: a finalized run that carries the fallback verdict has fallbackUsed
\* = true, also when its risk step never ran.
C39_FallbackVerdictFlagged ==
    \A r \in Runs : FallbackVerdict(r) => run[r].fallbackUsed

\* C40: a finalized run whose riskSignals step failed, and whose verdict is
\* therefore the medium-risk fallback, never recommends dismissing the alert:
\* its recommendedAction is never "mark_false_positive".
C40_NeverDismiss ==
    \A r \in Runs :
        (Finalized(r) /\ ToolFailed(r, "riskSignals"))
            => run[r].recommendedAction # "mark_false_positive"

(***************************************************************************)
(* Claims about the rate limiter (SpecRLSeq, SpecRL)                       *)
(***************************************************************************)
\* The client's first k calls all went through the bucket (none was let
\* through by the catch block).
Metered(c, k) == \A j \in 1..k : ~log[c][j].failOpen

\* C19: with maxTokens = 5 and refillRate = 5 per second, for requests made
\* one at a time by a client with no stored bucket: the first 5 requests
\* made at one instant are allowed, a 6th at that instant is rejected with
\* status 429 and retryAfter = 1, and a request made 1 second or more after
\* the one before it is allowed.
C19_BurstThenRefill ==
    \A c \in Clients :
        \A k \in DOMAIN log[c] :
            Metered(c, k) =>
                /\ (k <= 5 /\ log[c][k].t = log[c][1].t) => log[c][k].status = 200
                /\ (k = 6 /\ log[c][k].t = log[c][1].t)
                   => log[c][k].status = 429 /\ log[c][k].retryAfter = 1
                /\ (k > 1 /\ log[c][k].t - log[c][k - 1].t >= 1000) => log[c][k].status = 200

C19_Witness ==
    \E c \in Clients :
        /\ Len(log[c]) = 7
        /\ Metered(c, 7)
        /\ \A k \in 1..6 : log[c][k].t = log[c][1].t
        /\ \A k \in 1..5 : log[c][k].status = 200
        /\ log[c][6].status = 429 /\ log[c][6].retryAfter = 1
        /\ log[c][7].t = log[c][1].t + 1000
        /\ log[c][7].status = 200

\* The client's calls that took a token between the instants of its calls i
\* and j.
Granted(c, i, j) ==
    {k \in DOMAIN log[c] :
        /\ log[c][k].status = 200 /\ ~log[c][k].failOpen
        /\ log[c][i].t <= log[c][k].t /\ log[c][k].t <= log[c][j].t}

\* C20: for every client and every interval, the requests of the client
\* that were allowed a token in the interval number at most
\* maxTokens + refillRate * t, t being the interval's length in seconds
\* (both sides in thousandths of a token).
C20_TokenBucketBound ==
    \A c \in Clients :
        \A i, j \in DOMAIN log[c] :
            log[c][i].t <= log[c][j].t
            => Cardinality(Granted(c, i, j)) * 1000
                 <= maxTokens * 1000
                      + ((log[c][j].t - log[c][i].t) * refillRate * 1000) \div refillInterval

\* The token bucket whose state never expires: the statuses of the calls
\* of client c from the k-th on, the bucket being `before` when the k-th
\* arrives (none at the first call, which finds it full).  The bucket is
\* refilled continuously and every call that finds a token takes one.
RECURSIVE IdealFrom(_, _, _)
IdealFrom(c, k, before) ==
    IF k > Len(log[c])
    THEN <<>>
    ELSE LET tokens == refill(before, log[c][k].t)
             allowed == HasToken(tokens)
         IN <<IF allowed THEN 200 ELSE 429>>
              \o IdealFrom(c, k + 1,
                           IF allowed
                           THEN [tokens |-> takeToken(tokens), lastRefill |-> log[c][k].t]
                           ELSE before)
IdealStatuses(c) == IdealFrom(c, 1, Null)

\* C37: with maxTokens 5, 5 tokens per second and a TTL of 60 s the expiry
\* of the stored bucket is unobservable: for requests made one at a time,
\* at whatever instants, each is allowed or rejected as by a token bucket
\* whose state never expires.
C37_ExpiryUnobservable ==
    \A c \in Clients :
        LET ideal == IdealStatuses(c)
        IN \A k \in DOMAIN log[c] :
               Metered(c, k) => log[c][k].status = ideal[k]

\* A client was rejected with its bucket empty and came back after the
\* stored bucket had expired: its request found no bucket and was allowed.
C37_Witness ==
    \E c \in Clients :
        \E k \in DOMAIN log[c] :
            /\ k > 1
            /\ Metered(c, k)
            /\ log[c][k - 1].status = 429
            /\ log[c][k].t - log[c][k - 1].t > bucketTtl * 1000
            /\ log[c][k].status = 200
            /\ redisGet(redis, c, log[c][k].t) = Null \/ redis.data[c].lastRefill = log[c][k].t

\* The step is the settling of a store command of request p that the
\* unavailable store rejected.
StoreFails(p) == req[p].pc # "idle" /\ ~redis.up /\ req'[p] # req[p]

\* C21: a check whose GET or SETEX the unavailable store rejects ends at
\* once with the request allowed: one entry is added to its client's log,
\* with next() called once and no 429, and the store is left as it was; and
\* every call the catch block let through was allowed with one next().
C21_FailOpen ==
    /\ [][\A p \in RlProcs :
            StoreFails(p) =>
                LET c == req[p].clientId
                IN /\ req'[p] = IdleReq
                   /\ redis' = redis
                   /\ Len(log'[c]) = Len(log[c]) + 1
                   /\ SubSeq(log'[c], 1, Len(log[c])) = log[c]
                   /\ log'[c][Len(log'[c])].status = 200
                   /\ log'[c][Len(log'[c])].next = 1
                   /\ log'[c][Len(log'[c])].failOpen
                   /\ \A d \in Clients \ {c} : log'[d] = log[d]]_vars
    /\ [](\A c \in Clients : \A k \in DOMAIN log[c] :
              /\ log[c][k].failOpen => log[c][k].status = 200 /\ log[c][k].next = 1
              /\ log[c][k].status = 429 <=> log[c][k].next = 0
              /\ log[c][k].status = 429 => ~log[c][k].failOpen)

\* Two calls of one client were let through by the catch block, and the
\* bucket is as the burst left it.
C21_Witness ==
    /\ ~redis.up
    /\ InFlight = {}
    /\ \E c \in Clients :
          /\ Len(log[c]) = Burst + 2
          /\ \A k \in Burst + 1 .. Burst + 2 : log[c][k].failOpen
          /\ redis.data[c] = BucketAfter(Burst)

\* The identity the claim gives a caller: its API key when it presents
\* one, its address otherwise.
IdentityOf(p) ==
    IF "apiKey" \in DOMAIN Requests[p]
    THEN <<"key", Requests[p].apiKey>>
    ELSE <<"ip", Requests[p].ip>>
Acts(p) == req[p].pc # "idle" /\ req'[p] # req[p]

\* C22: a check works on the bucket of its caller's identity, the API key
\* when one is presented and the address otherwise.  Callers presenting the
\* same key from different addresses have the same bucket, a caller with no
\* key at one of those addresses has another; what a check decides depends
\* on its own identity's bucket only, and a step changes the bucket and the
\* log of no identity but that of the call that takes it.
C22_OwnBucket ==
    /\ [](\A p \in RlProcs : req[p].pc # "idle" => req[p].clientId = IdentityOf(p))
    /\ [](\A p, q \in RlProcs :
              (req[p].pc # "idle" /\ req[q].pc # "idle")
              => (req[p].clientId = req[q].clientId <=> IdentityOf(p) = IdentityOf(q)))
    /\ [][\A p \in RlProcs :
            (req[p].pc = "get" /\ req'[p] # req[p] /\ redis.up)
            => LET own == refill(redisGet(redis, IdentityOf(p), now), now)
               IN IF HasToken(own)
                  THEN req'[p].pc = "setEx" /\ req'[p].tokens = takeToken(own)
                  ELSE req'[p] = IdleReq
                       /\ log'[IdentityOf(p)] = Append(log[IdentityOf(p)], Rejected(now, own))]_vars
    /\ [][\A c \in Clients :
            (redis'.data[c] # redis.data[c] \/ log'[c] # log[c])
            => \E p \in RlProcs : Acts(p) /\ IdentityOf(p) = c]_vars

\* The two callers with the key are in flight on one bucket, from two
\* addresses, while the caller without a key has its own bucket and log.
C22_Witness ==
    /\ req[1].pc = "setEx" /\ req[2].pc = "get"
    /\ req[1].clientId = req[2].clientId
    /\ Requests[1].ip # Requests[2].ip
    /\ Requests[3].ip = Requests[1].ip
    /\ Len(log[IdentityOf(3)]) = 1
    /\ redis.data[IdentityOf(3)] # Null
    /\ redis.data[IdentityOf(3)].tokens = Num(maxTokens - 1)
    /\ redis.data[IdentityOf(1)] = BucketAfter(Burst)

(***************************************************************************)
(* Claims about the circuit breaker (SpecCB)                               *)
(***************************************************************************)
Begins(t) == obs'.begun[t] = obs.begun[t] + 1
Known(t) == t \in DOMAIN states
SinceFailure(t) == now - states[t].lastFailureTime

\* C4 as stated: once 3 consecutive execute calls for a name have failed,
\* every call for that name that begins less than 30000 ms after the last
\* recorded failure is rejected and does not invoke the function.
C4_Original ==
    [][\A t \in CbTools :
          (/\ Begins(t)
           /\ Known(t)
           /\ obs.consec[t] >= failureThreshold
           /\ SinceFailure(t) < openDuration)
          => /\ obs'.rejected[t] = obs.rejected[t] + 1
             /\ obs'.fnCalls[t] = obs.fnCalls[t]]_vars

\* C4 amended: once the breaker has counted 3 consecutive failures for a
\* name since the name's last success or cooldown reset (failures >= 3),
\* every call for that name that begins less than 30000 ms after the last
\* recorded failure is rejected with the circuit-open error, does not invoke
\* the function and leaves the breaker as it is, whichever caller made the
\* failing calls.
C4_FailFast ==
    [][\A t \in CbTools :
          (/\ Begins(t)
           /\ Known(t)
           /\ states[t].failures >= failureThreshold
           /\ SinceFailure(t) < openDuration)
          => /\ obs'.rejected[t] = obs.rejected[t] + 1
             /\ obs'.fnCalls[t] = obs.fnCalls[t]
             /\ states' = states
             /\ \A p \in DOMAIN call : call'[p].pc = call[p].pc
             /\ \E p \in DOMAIN call : call'[p].pc = "idle" /\ call'[p].last = "open"]_vars

\* Caller 2 is rejected by a circuit that three failed calls opened, the
\* last of them made by caller 1; the function was invoked 3 times.
C4_Witness ==
    \E t \in CbTools :
        /\ obs.fnCalls[t] = 3
        /\ obs.failed[t] = 3
        /\ obs.rejected[t] >= 1
        /\ call[1].pc = "idle" /\ call[1].last = "fail"
        /\ call[2].pc = "idle" /\ call[2].last = "open"

\* No call has succeeded since the last cooldown reset of t.
OnlyFailuresSinceReset(t) ==
    obs.resets[t] >= 1 /\ obs.consec[t] >= obs.sinceReset[t]

\* C5 as stated: after the cooldown of an opened circuit, if the first call
\* fails, the circuit is open again.
C5_Original ==
    \A t \in CbTools :
        (Known(t) /\ OnlyFailuresSinceReset(t) /\ obs.sinceReset[t] = 1)
        => states[t].isOpen

\* C5 amended: after the cooldown of an opened circuit the first call is
\* attempted with the counters reset to 0; if it fails, the failure count is
\* 1 and the circuit stays closed, so the next call is attempted as well; the
\* circuit is open again only when 3 failures have been counted since the
\* reset.
C5_AfterCooldown ==
    /\ [](\A t \in CbTools :
            (Known(t) /\ OnlyFailuresSinceReset(t))
            => /\ states[t].failures = obs.sinceReset[t]
               /\ states[t].isOpen <=> obs.sinceReset[t] >= failureThreshold)
    /\ [][\A t \in CbTools :
            (/\ Begins(t)
             /\ Known(t)
             /\ OnlyFailuresSinceReset(t)
             /\ obs.sinceReset[t] < failureThreshold)
            => obs'.fnCalls[t] = obs.fnCalls[t] + 1]_vars

\* The call after the cooldown failed (the 4th failure in a row), the
\* circuit is closed and the next call is running.
C5_Witness ==
    \E t \in CbTools :
        /\ Known(t)
        /\ obs.resets[t] = 1
        /\ obs.sinceReset[t] = 1
        /\ obs.consec[t] = 4
        /\ ~states[t].isOpen
        /\ obs.fnCalls[t] = 5
        /\ \E p \in DOMAIN call : call[p].pc = "fn"

\* C29: once the circuit of a name has opened it stays open until a call
\* for the name begins at least 30000 ms after the last recorded failure:
\* no other step, the return of a call that was in flight when the circuit
\* opened included, sets isOpen back to false.
C29_StaysOpen ==
    [][\A t \in CbTools :
          (Known(t) /\ states[t].isOpen /\ ~states'[t].isOpen)
          => (Begins(t) /\ SinceFailure(t) >= openDuration)]_vars

\* C38: in every state of the breaker and for every tool name, under any
\* interleaving of concurrent calls, isOpen is true exactly when failures
\* is at least the failure threshold (3), and failures is never negative.
C38_OpenIffThreshold ==
    \A t \in DOMAIN states :
        /\ states[t].isOpen <=> states[t].failures >= failureThreshold
        /\ states[t].failures >= 0

\* A call that was in flight when the circuit opened has failed as well:
\* 4 failures are counted and the circuit is open.
C38_Witness ==
    \E t \in CbTools :
        /\ Known(t)
        /\ states[t].failures = failureThreshold + 1
        /\ states[t].isOpen
        /\ obs.rejected[t] = 0
        /\ obs.resets[t] = 0

\* C6: a call that begins at least 30000 ms after the last recorded failure
\* of an open circuit resets the state (failures = 0, isOpen = false) before
\* the function is invoked, and invokes it; a step in which no call for the
\* name begins or returns (time passing, a caller asking isOpen) leaves the
\* name's state, and what isOpen returns, as it is.
C6_LazyClose ==
    [][\A t \in CbTools :
          /\ (/\ Begins(t)
              /\ Known(t)
              /\ states[t].isOpen
              /\ SinceFailure(t) >= openDuration)
             => /\ states'[t] = InitialState
                /\ obs'.fnCalls[t] = obs.fnCalls[t] + 1
                /\ \E p \in DOMAIN call : call[p].pc = "idle" /\ call'[p].pc = "fn"
          /\ (/\ Known(t)
              /\ ~Begins(t)
              /\ obs'.succeeded[t] = obs.succeeded[t]
              /\ obs'.failed[t] = obs.failed[t])
             => /\ states'[t] = states[t]
                /\ isOpen(states', t) = isOpen(states, t)]_vars

\* The function of the call that reset the circuit is running: the cooldown
\* went by with the circuit open, and the call found it open.
C6_Witness ==
    \E t \in CbTools :
        /\ Known(t)
        /\ obs.resets[t] = 1
        /\ obs.sinceReset[t] = 0
        /\ states[t] = InitialState
        /\ obs.passes >= 2
        /\ \E p \in DOMAIN call : call[p].pc = "fn"

\* C7: a successful call leaves failures = 0 and isOpen = false whatever the
\* failures before it, and changes nothing when the state was already so (a
\* second success); a circuit opens only when the last 3 completed calls
\* failed in a row.
C7_SuccessResets ==
    [][\A t \in CbTools :
          /\ obs'.succeeded[t] = obs.succeeded[t] + 1
             => /\ states'[t].failures = 0
                /\ ~states'[t].isOpen
                /\ states'[t].lastFailureTime = states[t].lastFailureTime
                /\ (states[t].failures = 0 /\ ~states[t].isOpen) => states'[t] = states[t]
          /\ (Known(t) /\ ~states[t].isOpen /\ states'[t].isOpen)
             => obs'.consec[t] >= failureThreshold]_vars

\* Two failures, a success that cleared them, then two more failures: the
\* circuit is closed after 4 failures that were not consecutive.
C7_Witness ==
    \E t \in CbTools :
        /\ Known(t)
        /\ obs.failed[t] = 4
        /\ obs.succeeded[t] = 1
        /\ obs.consec[t] = 2
        /\ states[t].failures = 2
        /\ ~states[t].isOpen

(***************************************************************************)
(* Claims about BaseTool.execute (SpecTool)                                *)
(***************************************************************************)
Returned(p) == call[p].pc = "idle" /\ "result" \in DOMAIN call[p]

\* The failure a caller of CircuitBreaker.execute is given by a rejection of
\* the open circuit, and what of a ToolResult tells a failure apart (its
\* duration is a measurement, not a mark).
Presented(result) == [ok |-> result.ok, data |-> result.data, error |-> result.error]
OpenRejection(toolName) == failResult(CircuitOpenError(toolName), 0)

\* C23: a call whose tool ran and failed never presents its caller with the
\* failure of a circuit-open rejection: the error CircuitBreaker.execute
\* rethrows is not the breaker's own, and the ToolResult differs from that
\* of a rejected call.
C23_OpenDistinct ==
    \A p \in ToolProcs :
        ("last" \in DOMAIN call[p] /\ call[p].last = "fail")
        => /\ call[p].done.thrown # CircuitOpenError(call[p].tool)
           /\ Presented(call[p].result) # Presented(OpenRejection(call[p].tool))

\* The invocations of run of a retry loop r that are in flight at time t of
\* the call: begun, and not settled.  An invocation that lost the race
\* against its timer stays in flight: nothing cancels it.
RunsInFlight(r, t) ==
    {k \in DOMAIN r.starts :
        /\ r.starts[k] <= t
        /\ k \in r.unsettled \/ t < r.ends[k]}

\* C24: within one BaseTool.execute call at most one invocation of run is
\* in flight at any time: when an attempt starts, no earlier attempt's
\* invocation is still in flight.
C24_OneRunInFlight ==
    \A p \in ToolProcs :
        call[p].pc = "exec"
        => \A k \in DOMAIN call[p].pend.starts :
               RunsInFlight(call[p].pend, call[p].pend.starts[k]) = {k}

\* The breaker's state of a name, created or not.
StateOf(m, t) == getState(m, t)[t]

\* What the return of a call's retry loop does to the breaker: one more
\* failure when every attempt failed, none left when an attempt succeeded,
\* however many attempts there were.
RecordsOutcome(p) ==
    LET t == call[p].tool
        r == call[p].pend
    IN /\ Len(r.starts) \in 1..(maxRetries + 1)
       /\ IF r.ok
          THEN StateOf(states', t).failures = 0
          ELSE /\ StateOf(states', t).failures = StateOf(states, t).failures + 1
               /\ StateOf(states', t).lastFailureTime = now'

\* C30 as stated: a call the circuit does not reject updates the breaker
\* exactly once, after its retry loop: one more failure when all attempts
\* failed, a reset to 0 when an attempt succeeded; the breaker is as it was
\* when the call begins.
C30_Original ==
    [][\A p \in ToolProcs :
          /\ (call[p].pc = "idle" /\ call'[p].pc = "exec")
             => StateOf(states', call'[p].tool) = StateOf(states, call'[p].tool)
          /\ (call[p].pc = "exec" /\ call'[p].pc = "idle") => RecordsOutcome(p)]_vars

\* C30 amended: a call the circuit does not reject records its outcome in
\* the breaker exactly once, after its retry loop: one more failure when all
\* attempts failed, a reset to 0 when an attempt succeeded; when it begins
\* it leaves the breaker as it was, unless it begins on an open circuit
\* after the cooldown, which it resets before the loop.
C30_OncePerCall ==
    [][\A p \in ToolProcs :
          /\ (call[p].pc = "idle" /\ call'[p].pc = "exec")
             => LET t == call'[p].tool
                IN IF StateOf(states, t).isOpen
                   THEN /\ now - StateOf(states, t).lastFailureTime >= openDuration
                        /\ StateOf(states', t) = InitialState
                   ELSE StateOf(states', t) = StateOf(states, t)
          /\ (call[p].pc = "exec" /\ call'[p].pc = "idle") => RecordsOutcome(p)]_vars

\* Three calls of three failed attempts each: run has failed 9 times in a
\* row and the third call's return has opened the circuit.
C30_Witness ==
    \E t \in CbTools, p \in ToolProcs :
        /\ Known(t)
        /\ obs.runCalls[t] = 3 * (maxRetries + 1)
        /\ obs.failed[t] = failureThreshold
        /\ obs.succeeded[t] = 0
        /\ states[t].failures = failureThreshold
        /\ states[t].isOpen
        /\ Returned(p) /\ call[p].last = "fail" /\ Len(call[p].done.starts) = maxRetries + 1

\* C3: every call resolves to a ToolResult; a failed one carries ok = false,
\* an error message and a duration, and the result is ok with the tool's
\* data exactly when an attempt succeeded.
C3_NormalizedResult ==
    \A p \in DOMAIN call :
        Returned(p) =>
            LET r == call[p].result IN
            /\ r.duration \in Nat
            /\ r.ok <=> (call[p].last = "ok" /\ call[p].done.ok)
            /\ r.ok => r.data = SomeData
            /\ ~r.ok => r.error # Undefined

\* C8: a call that finds the circuit open within its cooldown invokes run
\* zero times, waits for nothing (it has returned in the same instant, with
\* no retry pending), returns ok = false with the circuit-open error, and
\* leaves the breaker's state, failure count and lastFailureTime included,
\* unchanged.
C8_OpenNoRetry ==
    [][\A t \in CbTools :
          (/\ Begins(t)
           /\ Known(t)
           /\ states[t].isOpen
           /\ SinceFailure(t) < openDuration)
          => /\ obs'.runCalls[t] = obs.runCalls[t]
             /\ obs'.fnCalls[t] = obs.fnCalls[t]
             /\ now' = now
             /\ states' = states
             /\ \E p \in DOMAIN call :
                   /\ call[p].pc = "idle"
                   /\ call'[p].pc = "idle"
                   /\ call'[p].last = "open"
                   /\ call'[p].result.ok = FALSE
                   /\ call'[p].result.error = CircuitOpenError(t).message
                   /\ call'[p].result.duration = 0]_vars

\* A call was rejected 29999 ms after the third failed call.
C8_Witness ==
    \E t \in CbTools, p \in DOMAIN call :
        /\ Known(t)
        /\ states[t].isOpen
        /\ states[t].failures = failureThreshold
        /\ SinceFailure(t) = openDuration - 1
        /\ Returned(p)
        /\ call[p].last = "open"
        /\ obs.rejected[t] >= 1

\* C9: a call invokes run at most 3 times, a retry begins only after a failed
\* attempt and at least the attempt's retry delay later (150 ms, then 400 ms),
\* the call stops at the first attempt that succeeds, and it reports failure
\* only after the 3rd attempt has failed.
C9_AtMostThreeAttempts ==
    \A p \in DOMAIN call :
        (Returned(p) /\ call[p].last # "open") =>
            LET d == call[p].done
                n == Len(d.starts)
            IN /\ n <= maxRetries + 1
               /\ \A k \in 2..n : d.starts[k] - d.ends[k - 1] >= retryDelays[k - 1]
               /\ d.elapsed = d.ends[n]
               /\ ~d.ok => n = maxRetries + 1

====
